---- MODULE Spec2Model ----
(***************************************************************************)
(* A model of the pycons3rt utility modules:                              *)
(*   - bash.run_command and its kill timer          (pycons3rt/bash.py)   *)
(*   - Deployment properties load and lookup   (pycons3rt/deployment.py)  *)
(*   - the bounded retry loops of s3util.py, nexus.py and ec2util.py      *)
(* Text is modelled as a sequence of one-character strings (or, for the   *)
(* messages of run_command, of fragments).                                *)
(***************************************************************************)
EXTENDS Integers, Sequences, FiniteSets, TLC

VARIABLES
    \* ---- bash.run_command ----
    command,        \* the command argument: [isList, items]
    output,         \* the output argument (True collects output)
    rcPc,           \* position of the caller's thread in run_command
    subproc,        \* the child process: "none", "running", "exited", "reaped"
    returncode,     \* the child's exit status once it has exited
    exitedBy,       \* "none", "self" (exited on its own) or "timer" (killed)
    timer,          \* the Timer thread: "none", "waiting", "firing", "done"
    finished,       \* the Timer's finished event, set by cancel()
    code,           \* the local variable code
    result,         \* the returned dict, or NoValue
    error,          \* the raised exception [type, msg, from], or NoValue;
                    \* from is the exception the handler caught ("none" if
                    \* the error was raised directly)
    lateKill,       \* the timer called kill after run_command had left
    strayKill,      \* outcome of a kill sent to a pid that was already reaped
    \* ---- deployment.Deployment ----
    file,           \* text of the deployment.properties file
    properties,     \* Deployment.properties: property name -> value
    depPc,          \* "new" (after line 69) or "loaded"
    lookupArg,      \* the string the caller passes to the lookups
    query,          \* the last lookup: [op, ret]
    \* ---- Deployment.__init__ ----
    ctorPc,         \* "home", "read", "role", "rest", "constructed", "raised"
    ctorErr,        \* type of the exception that left __init__, or NoValue
    fileState,      \* what the file system did to the read of the properties
                    \* file: "ok", "missing", "unopenable" or "unreadable"
    roleEnv,        \* os.environ['CONS3RT_ROLE_NAME'] as the constructor sees
                    \* it: NoValue (unset) or Some(name)
    roleFrom,       \* where the role name came from: "none", "env", "properties"
    cons3rt_role_name,  \* Deployment.cons3rt_role_name: NoValue is None,
                    \* Some(text) a string ('' is Some(<<>>))
    other,          \* properties of a second Deployment over the same file
    \* ---- the retry loops ----
    loop,           \* which loop runs
    count,          \* the loop counter (count, try_num, i + 1)
    calls,          \* external calls made so far
    fails,          \* of these, the calls that failed
    sleeps,         \* time.sleep calls made so far
    lastResp,       \* outcome of the last external call
    rtPc,           \* "idle", "loop", "returned" or "raised"
    rtRet,          \* the value returned
    rtErr,          \* the type of the error raised
    \* ---- one call of an operation of the remote facades ----
    fOp,            \* the operation called
    fArgs,          \* its arguments: parameter name -> kind of value passed
    existing,       \* a user or project of the name to create exists already
    fPc,            \* "idle", "call", "returned" or "raised"
    fRet,           \* the value returned, or NoValue
    fErr,           \* the exception raised [type, msg], or NoValue
    fCalls,         \* the external commands and API calls made: [call, ok]
    \* ---- EC2Util.create_security_group, two callers ----
    groups,         \* the security groups of the VPC: name -> GroupId
    sgArgs,         \* per caller, the arguments and self.vpc_id
    sgPc,           \* per caller: "idle", "call", "describe", "create",
                    \* "returned" or "raised"
    sgSeen,         \* per caller, how many groups its describe call reported
                    \* (NoValue before it answered)
    sgRet,          \* per caller, the GroupId returned, or NoValue
    sgErr,          \* per caller, the type of the error raised, or NoValue
    sgCalls,        \* per caller, the API calls issued, in order
    \* ---- dyndict.DynDict ----
    dyn,            \* the DynDict: key -> stored value
    dynKey,         \* the key last indexed, or NoValue
    dynGot,         \* what indexing it returned, or NoValue
    std_dict,       \* what getdict returned, or NoValue
    \* ---- pygit.git_clone ----
    gitArgs,        \* the arguments: kinds of url, clone_dir and retry_sec,
                    \* max_retries (NoValue when it is no int), git_cmd given
    gitPc,          \* "idle", "validate", "find", "prepare", "loop",
                    \* "returned" or "raised"
    gitI,           \* the loop variable i
    gitRuns,        \* run_command calls of the git command so far
    gitSleeps,      \* time.sleep calls so far
    gitOk,          \* an attempt ran the git command and got exit code 0
    gitRaisedAt,    \* where PyGitError was raised, or "none"
    \* ---- nexus.get_artifact, the download of the content ----
    dlHeader,       \* the response's Content-Length: NoValue when the header
                    \* is absent or no number, Some(n) otherwise
    dlBody,         \* the chunks iter_content yields: their lengths
    suppress_status,\* the suppress_status argument, then the local
    try_num,        \* the attempt number
    file_size,      \* the local file_size
    file_size_dl,   \* the local file_size_dl
    dlPos,          \* chunks of the body consumed in this attempt
    dlFile,         \* the download file: the lengths of the chunks written
    dlPrinted,      \* status lines printed so far
    dlPc,           \* "idle", "query", "chunk", "returned" or "raised"
    dlErr,          \* the exception class that left get_artifact, or "none"
    overwrite,      \* the overwrite argument
    failed_attempt, \* the local failed_attempt
    \* ---- EC2Util.configure_security_group_ingress ----
    ingRules,       \* the security group's ingress rules at AWS
    ingArgs,        \* the arguments: [group_is_str, port, cidrs]
    ingTodo,        \* rules of the queried list not yet evaluated
    ingRevoked,     \* the rules this call revoked
    ingAuth,        \* the rule this call authorized, or NoValue
    ingPc,          \* "idle", "validate", "describe", "rules", "authorize",
                    \* "returned" or "raised"
    ingErr,         \* the exception class raised, or "none"
    \* ---- SlackMessage ----
    attachments,    \* self.attachments: the attachments' numbers, in order
    payload,        \* self.payload: [text, attachments], the second NoValue
                    \* when the payload has no 'attachments' entry
    slackEnc,       \* for every attachment added: it encodes as JSON
    slackAdded,     \* for every attachment added: the sends made before
    slackSent,      \* for every send: what the payload carried, how it ended
    slackPc,        \* "idle", or how the last call ended: "new", "added",
                    \* "rejected", "returned" or "raised"
    \* ---- update_hosts_file ----
    hostsFile,      \* the text of the hosts file, NoValue when there is none
    hostsArgs,      \* the arguments [ip, entry], NoValue for what is no string
    hostsOrig,      \* the file before the first call
    hostsFirst,     \* the file as the first call left it, or NoValue
    hostsCalls,     \* calls made so far
    hostsPc,        \* "idle", "ready", "returned" or "raised"
    hostsErr        \* the exception class raised, or "none"

runVars == <<command, output, rcPc, subproc, returncode, exitedBy, timer,
             finished, code, result, error, lateKill, strayKill>>

depVars == <<file, properties, depPc, lookupArg, query>>

ctorVars == <<ctorPc, ctorErr, fileState, roleEnv, roleFrom, cons3rt_role_name,
              other>>

retryVars == <<loop, count, calls, fails, sleeps, lastResp, rtPc, rtRet, rtErr>>

facadeVars == <<fOp, fArgs, existing, fPc, fRet, fErr, fCalls>>

groupVars == <<groups, sgArgs, sgPc, sgSeen, sgRet, sgErr, sgCalls>>

dynVars == <<dyn, dynKey, dynGot, std_dict>>

gitVars == <<gitArgs, gitPc, gitI, gitRuns, gitSleeps, gitOk, gitRaisedAt>>

dlVars == <<dlHeader, dlBody, suppress_status, try_num, file_size,
            file_size_dl, dlPos, dlFile, dlPrinted, dlPc, dlErr, overwrite,
            failed_attempt>>

ingVars == <<ingRules, ingArgs, ingTodo, ingRevoked, ingAuth, ingPc, ingErr>>

slackVars == <<attachments, payload, slackEnc, slackAdded, slackSent, slackPc>>

hostsVars == <<hostsFile, hostsArgs, hostsOrig, hostsFirst, hostsCalls,
               hostsPc, hostsErr>>

lateVars == <<dlVars, ingVars, slackVars, hostsVars>>

\* the state of the components added last
restVars == <<facadeVars, groupVars, dynVars, gitVars, lateVars>>

vars == <<runVars, depVars, ctorVars, retryVars, restVars>>

\* what the steps of run_command leave alone
nonRunVars == <<depVars, ctorVars, retryVars, restVars>>

\* what the steps of Deployment leave alone
nonDepVars == <<runVars, ctorVars, retryVars, restVars>>

\* what the steps of the retry loops leave alone
nonRetryVars == <<runVars, depVars, ctorVars, restVars>>

\* what the steps of Deployment.__init__ leave alone
nonCtorVars == <<runVars, retryVars, restVars>>

\* what a facade operation, create_security_group and DynDict leave alone
nonFacadeVars ==
    <<runVars, depVars, ctorVars, retryVars, groupVars, dynVars, gitVars,
      lateVars>>
nonGroupVars ==
    <<runVars, depVars, ctorVars, retryVars, facadeVars, dynVars, gitVars,
      lateVars>>
nonDynVars ==
    <<runVars, depVars, ctorVars, retryVars, facadeVars, groupVars, gitVars,
      lateVars>>

\* what git_clone leaves alone
nonGitVars ==
    <<runVars, depVars, ctorVars, retryVars, facadeVars, groupVars, dynVars,
      lateVars>>

\* an absent value (None) is the empty tuple, a present one a 1-tuple
NoValue == <<>>
Some(x) == <<x>>
Val(o) == o[1]

(***************************************************************************)
(* Bounds                                                                  *)
(***************************************************************************)
MaxArgs == 2        \* longest command list
MaxStatus == 7      \* exit statuses 0..MaxStatus

(***************************************************************************)
(* Text helpers                                                            *)
(***************************************************************************)
\* sep.join(items)
RECURSIVE Join(_, _)
Join(sep, items) ==
    IF Len(items) = 0 THEN <<>>
    ELSE IF Len(items) = 1 THEN <<items[1]>>
    ELSE <<items[1], sep>> \o Join(sep, Tail(items))

\* sub occurs in text as a contiguous run
Contains(text, sub) ==
    \E i \in 0..(Len(text) - Len(sub)) :
        \A j \in 1..Len(sub) : text[i + j] = sub[j]

(***************************************************************************)
(* bash.run_command                                                        *)
(***************************************************************************)
Words == {"sh", "x"}

ArgLists == UNION {[1..n -> Words] : n \in 1..MaxArgs}

\* a list, or a non-list (a tuple) holding the same items
Commands == [isList : BOOLEAN, items : ArgLists]

\* str(ex) of the exception the OS call raised
CauseText(kind) ==
    IF kind = "OSError" THEN <<"[Errno 2] No such file or directory">>
    ELSE <<"bufsize must be an integer">>

\* command_str = ' '.join(map(str, command))
command_str == Join(" ", command.items)

NotListMsg == <<"command arg must be a list">>

ProblemMsgMutant(ex) ==
    <<"There was a problem running command: ">> \o CauseText(ex)

BadCommandMsg(ex) ==
    <<"Bad command supplied: ">> \o command_str \o <<"\n">> \o CauseText(ex)

ProblemMsg(ex) ==
    <<"There was a problem running command: ">> \o command_str \o <<"\n">>
        \o CauseText(ex)

\* the constructor has come to line 100 (the call of
\* read_deployment_properties) and the file is there to be read
CtorAtRead ==
    /\ ctorPc = "read"
    /\ ctorErr = NoValue
    /\ fileState = "ok"
    /\ roleEnv = NoValue
    /\ roleFrom = "none"
    /\ cons3rt_role_name = Some(<<>>)
    /\ other = NoValue

\* no facade operation is in play
FacadeIdle ==
    /\ fOp = "none"
    /\ fArgs = <<>>
    /\ existing = FALSE
    /\ fPc = "idle"
    /\ fRet = NoValue
    /\ fErr = NoValue
    /\ fCalls = <<>>

\* nobody calls create_security_group
GroupIdle ==
    /\ groups = <<>>
    /\ sgArgs = <<>>
    /\ sgPc = <<>>
    /\ sgSeen = <<>>
    /\ sgRet = <<>>
    /\ sgErr = <<>>
    /\ sgCalls = <<>>

\* no DynDict is in play
\* the components modelled before the download of get_artifact
earlyVars == <<runVars, depVars, ctorVars, retryVars, facadeVars, groupVars,
               dynVars, gitVars>>

\* what the download, configure_security_group_ingress, SlackMessage and
\* update_hosts_file leave alone
nonDlVars == <<earlyVars, ingVars, slackVars, hostsVars>>
nonIngVars == <<earlyVars, dlVars, slackVars, hostsVars>>
nonSlackVars == <<earlyVars, dlVars, ingVars, hostsVars>>
nonHostsVars == <<earlyVars, dlVars, ingVars, slackVars>>

DynIdle ==
    /\ dyn = <<>>
    /\ dynKey = NoValue
    /\ dynGot = NoValue
    /\ std_dict = NoValue

\* nobody calls git_clone
GitIdle ==
    /\ gitArgs = <<>>
    /\ gitPc = "idle"
    /\ gitI = 0
    /\ gitRuns = 0
    /\ gitSleeps = 0
    /\ gitOk = FALSE
    /\ gitRaisedAt = "none"

\* nobody downloads an artifact
DlIdle ==
    /\ dlHeader = NoValue
    /\ dlBody = <<>>
    /\ suppress_status = FALSE
    /\ try_num = 1
    /\ file_size = 0
    /\ file_size_dl = 0
    /\ dlPos = 0
    /\ dlFile = NoValue
    /\ dlPrinted = 0
    /\ dlPc = "idle"
    /\ dlErr = "none"
    /\ overwrite = TRUE
    /\ failed_attempt = FALSE

\* nobody configures a security group's ingress
IngIdle ==
    /\ ingRules = {}
    /\ ingArgs = <<>>
    /\ ingTodo = {}
    /\ ingRevoked = {}
    /\ ingAuth = NoValue
    /\ ingPc = "idle"
    /\ ingErr = "none"

\* there is no SlackMessage
SlackIdle ==
    /\ attachments = <<>>
    /\ payload = <<>>
    /\ slackEnc = <<>>
    /\ slackAdded = <<>>
    /\ slackSent = <<>>
    /\ slackPc = "idle"

\* nobody updates a hosts file
HostsIdle ==
    /\ hostsFile = NoValue
    /\ hostsArgs = <<>>
    /\ hostsOrig = NoValue
    /\ hostsFirst = NoValue
    /\ hostsCalls = 0
    /\ hostsPc = "idle"
    /\ hostsErr = "none"

LateIdle == DlIdle /\ IngIdle /\ SlackIdle /\ HostsIdle

RestIdle == FacadeIdle /\ GroupIdle /\ DynIdle /\ GitIdle /\ LateIdle

\* no Deployment object is in play
DepIdle ==
    /\ file = <<>>
    /\ properties = <<>>
    /\ depPc = "new"
    /\ lookupArg = <<>>
    /\ query = [op |-> "none", ret |-> NoValue]
    /\ CtorAtRead

\* no retry loop is in play
RetryIdle ==
    /\ loop = "none"
    /\ count = 0
    /\ calls = 0
    /\ fails = 0
    /\ sleeps = 0
    /\ lastResp = "none"
    /\ rtPc = "idle"
    /\ rtRet = "none"
    /\ rtErr = "none"

RunInit ==
    /\ command \in Commands
    /\ output \in BOOLEAN
    /\ rcPc = "check"
    /\ subproc = "none"
    /\ returncode = NoValue
    /\ exitedBy = "none"
    /\ timer = "none"
    /\ finished = FALSE
    /\ code = NoValue
    /\ result = NoValue
    /\ error = NoValue
    /\ lateKill = FALSE
    /\ strayKill = "none"

RunLeft == rcPc \in {"returned", "raised"}

\* lines 76-79: the isinstance check
CheckList ==
    /\ rcPc = "check"
    /\ IF command.isList
       THEN rcPc' = "popen" /\ UNCHANGED error
       ELSE /\ rcPc' = "raised"
            /\ error' = Some([type |-> "CommandError", msg |-> NotListMsg,
                            from |-> "none"])
    /\ UNCHANGED nonRunVars /\ UNCHANGED <<command, output, subproc, returncode, exitedBy, timer,
                   finished, code, result, lateKill, strayKill>>

\* lines 91-100: subprocess.Popen; on ValueError / OSError the handler of
\* lines 115-127 runs, then the finally clause with timer still None
Popen ==
    /\ rcPc = "popen"
    /\ \E outcome \in {"ok", "OSError", "ValueError"} :
        CASE outcome = "ok" ->
                /\ subproc' = "running"
                /\ rcPc' = "timer"
                /\ UNCHANGED error
          [] outcome = "OSError" ->
                /\ error' = Some([type |-> "CommandError",
                                  msg |-> ProblemMsg("OSError"),
                                  from |-> "OSError"])
                /\ rcPc' = "raised"
                /\ UNCHANGED subproc
          [] outcome = "ValueError" ->
                /\ error' = Some([type |-> "CommandError",
                                  msg |-> BadCommandMsg("ValueError"),
                                  from |-> "ValueError"])
                /\ rcPc' = "raised"
                /\ UNCHANGED subproc
    /\ UNCHANGED nonRunVars /\ UNCHANGED <<command, output, returncode, exitedBy, timer, finished,
                   code, result, lateKill, strayKill>>

\* lines 102-104: Timer(timeout_sec, kill_proc, [subproc]).start()
StartTimer ==
    /\ rcPc = "timer"
    /\ timer' = "waiting"
    /\ rcPc' = IF output THEN "reading" ELSE "waiting"
    /\ UNCHANGED nonRunVars /\ UNCHANGED <<command, output, subproc, returncode, exitedBy, finished,
                   code, result, error, lateKill, strayKill>>

\* lines 105-110: the readline loop ends at end of file, which the child's
\* stdout reaches when the child is gone
ReadOutput ==
    /\ rcPc = "reading"
    /\ subproc # "running"
    /\ rcPc' = "waiting"
    /\ UNCHANGED nonRunVars /\ UNCHANGED <<command, output, subproc, returncode, exitedBy, timer,
                   finished, code, result, error, lateKill, strayKill>>

\* the value subproc.poll() hands back after wait()
PolledMutant(rc) == 0
Polled(rc) == rc

\* lines 112-114: subproc.wait() blocks until the child has exited and reaps
\* it; code = subproc.poll()
Wait ==
    /\ rcPc = "waiting"
    /\ subproc = "exited"
    /\ subproc' = "reaped"
    /\ code' = Some(Polled(Val(returncode)))
    /\ rcPc' = "finally"
    /\ UNCHANGED nonRunVars /\ UNCHANGED <<command, output, returncode, exitedBy, timer, finished,
                   result, error, lateKill, strayKill>>

\* Timer.cancel(): sets the finished event
Cancel == finished' = TRUE

\* lines 134-139: the finally clause
Finally ==
    /\ rcPc = "finally"
    /\ Cancel
    /\ rcPc' = "convert"
    /\ UNCHANGED nonRunVars /\ UNCHANGED <<command, output, subproc, returncode, exitedBy, timer,
                   code, result, error, lateKill, strayKill>>

\* lines 141-156: int(code) and the returned dict
Return ==
    /\ rcPc = "convert"
    /\ result' = Some([code |-> Val(code)])
    /\ rcPc' = "returned"
    /\ UNCHANGED nonRunVars /\ UNCHANGED <<command, output, subproc, returncode, exitedBy, timer,
                   finished, code, error, lateKill, strayKill>>

\* the child exits on its own with status n
ProcExit ==
    /\ subproc = "running"
    /\ \E n \in 0..MaxStatus : returncode' = Some(n)
    /\ subproc' = "exited"
    /\ exitedBy' = "self"
    /\ UNCHANGED nonRunVars /\ UNCHANGED <<command, output, rcPc, timer, finished, code, result,
                   error, lateKill, strayKill>>

\* Timer.run: finished.wait(interval) ends by the timeout with the event not
\* set; the thread is now past the check and about to call the function
TimerExpire ==
    /\ timer = "waiting"
    /\ ~finished
    /\ timer' = "firing"
    /\ UNCHANGED nonRunVars /\ UNCHANGED <<command, output, rcPc, subproc, returncode, exitedBy,
                   finished, code, result, error, lateKill, strayKill>>

\* Timer.run: finished.wait ends because cancel() set the event
TimerCancelled ==
    /\ timer = "waiting"
    /\ finished
    /\ timer' = "done"
    /\ UNCHANGED nonRunVars /\ UNCHANGED <<command, output, rcPc, subproc, returncode, exitedBy,
                   finished, code, result, error, lateKill, strayKill>>

\* p.kill(): SIGKILL to the child's pid. A running child dies with status -9;
\* a zombie is unaffected; a reaped pid is either gone (ESRCH) or reused by
\* another process, which then gets the signal.
\* a signal the child handles by exiting with status 0
process_killerTermMutant ==
    CASE subproc = "running" ->
            /\ subproc' = "exited"
            /\ returncode' = Some(0)
            /\ exitedBy' = "timer"
            /\ UNCHANGED strayKill
      [] OTHER ->
            UNCHANGED <<subproc, returncode, exitedBy, strayKill>>

process_killerMutant ==
    UNCHANGED <<subproc, returncode, exitedBy, strayKill>>
process_killer ==
    CASE subproc = "running" ->
            /\ subproc' = "exited"
            /\ returncode' = Some(-9)
            /\ exitedBy' = "timer"
            /\ UNCHANGED strayKill
      [] subproc = "exited" ->
            UNCHANGED <<subproc, returncode, exitedBy, strayKill>>
      [] OTHER ->
            /\ strayKill' \in {"esrch", "other_process"}
            /\ UNCHANGED <<subproc, returncode, exitedBy>>

\* Timer.run: the call of the function, then finished.set()
TimerKill ==
    /\ timer = "firing"
    /\ process_killer
    /\ timer' = "done"
    /\ lateKill' = (lateKill \/ RunLeft)
    /\ UNCHANGED nonRunVars /\ UNCHANGED <<command, output, rcPc, finished, code, result, error>>

RunNext ==
    \/ CheckList
    \/ Popen
    \/ StartTimer
    \/ ReadOutput
    \/ Wait
    \/ Finally
    \/ Return
    \/ ProcExit
    \/ TimerExpire
    \/ TimerCancelled
    \/ TimerKill

InitRun == RunInit /\ DepIdle /\ RetryIdle /\ RestIdle

SpecRun == InitRun /\ [][RunNext]_vars

\* the caller's thread and the timer thread are scheduled; time passes, so a
\* waiting timer expires; nothing makes the child exit
FairSpecRun ==
    /\ SpecRun
    /\ WF_vars(CheckList) /\ WF_vars(Popen) /\ WF_vars(StartTimer)
    /\ WF_vars(ReadOutput) /\ WF_vars(Wait) /\ WF_vars(Finally)
    /\ WF_vars(Return)
    /\ WF_vars(TimerExpire) /\ WF_vars(TimerCancelled) /\ WF_vars(TimerKill)

(***************************************************************************)
(* Claims about run_command                                                *)
(***************************************************************************)
\* C1: when the child exits on its own with status n, run_command returns a
\* result whose code is n; it does not raise, whatever n is.
C1_ExitCodeReturned ==
    (RunLeft /\ exitedBy = "self") =>
        /\ rcPc = "returned"
        /\ error = NoValue
        /\ Val(result).code = Val(returncode)

C1_Witness ==
    /\ rcPc = "returned"
    /\ exitedBy = "self"
    /\ returncode = Some(7)
    /\ Val(result).code = 7

C9_NoKillAfterReturn ==
    /\ (RunLeft /\ timer # "none") => finished
    /\ ~lateKill

\* C10 as stated: every CommandError names the joined command text and the
\* text of its cause, also the one for a command that is not a list.
C10_EveryErrorNamesCommand ==
    rcPc = "raised" =>
        /\ Val(error).type = "CommandError"
        /\ Contains(Val(error).msg, command_str)

\* C10 amended: a non-list command, or an OS call that raises, ends in a
\* CommandError; the errors built from a caught ValueError / OSError hold the
\* joined command text and the cause's text, and the one for a non-list
\* command is the fixed text 'command arg must be a list'.
C10_ErrorMessages ==
    /\ (~command.isList /\ rcPc # "check") => rcPc = "raised"
    /\ rcPc = "raised" =>
        /\ Val(error).type = "CommandError"
        /\ IF Val(error).from = "none"
           THEN ~command.isList /\ Val(error).msg = NotListMsg
           ELSE /\ Contains(Val(error).msg, command_str)
                /\ Contains(Val(error).msg, CauseText(Val(error).from))

C10_Witness ==
    /\ rcPc = "raised"
    /\ Val(error).from = "OSError"
    /\ Len(command.items) = 2

\* C23: a run_command whose child the timer killed returns a code that is
\* not 0.
C23_KilledIsNotSuccess ==
    (rcPc = "returned" /\ exitedBy = "timer") => Val(result).code # 0

\* the timer killed the child and run_command returned the status of the kill
C23_Witness ==
    /\ rcPc = "returned"
    /\ exitedBy = "timer"
    /\ Val(result).code = -9

(***************************************************************************)
(* deployment.Deployment: reading deployment.properties                    *)
(***************************************************************************)
MaxFileLen == 7     \* longest properties file, in characters

\* the characters a properties file is drawn from
FileChars == {"a", "=", " ", "#", "\n"}

ParseFiles == UNION {[1..n -> FileChars] : n \in 0..MaxFileLen}

\* whitespace, as str.strip() sees it
IsSpace(c) == c \in {" ", "\n"}

RECURSIVE LStrip(_)
LStrip(s) ==
    IF s = <<>> THEN s
    ELSE IF IsSpace(Head(s)) THEN LStrip(Tail(s)) ELSE s

RECURSIVE RStrip(_)
RStrip(s) ==
    IF s = <<>> THEN s
    ELSE IF IsSpace(s[Len(s)]) THEN RStrip(SubSeq(s, 1, Len(s) - 1)) ELSE s

\* str.strip(), here without the right-hand side
StripMutant(s) == LStrip(s)

\* str.strip()
Strip(s) == RStrip(LStrip(s))

\* index of the first c in s, 0 if there is none
IndexOf(s, c) ==
    IF \E i \in 1..Len(s) : s[i] = c
    THEN CHOOSE i \in 1..Len(s) :
            s[i] = c /\ \A j \in 1..(i - 1) : s[j] # c
    ELSE 0

\* index of the last c in s, 0 if there is none
LastIndexOf(s, c) ==
    IF \E i \in 1..Len(s) : s[i] = c
    THEN CHOOSE i \in 1..Len(s) :
            s[i] = c /\ \A j \in (i + 1)..Len(s) : s[j] # c
    ELSE 0

\* s.split('=') cut at the last '=' instead of the first
Split1Mutant(s) ==
    LET i == LastIndexOf(s, "=") IN
    IF i = 0 THEN <<s>>
    ELSE <<SubSeq(s, 1, i - 1), SubSeq(s, i + 1, Len(s))>>

\* s.split('=', 1)
Split1(s) ==
    LET i == IndexOf(s, "=") IN
    IF i = 0 THEN <<s>>
    ELSE <<SubSeq(s, 1, i - 1), SubSeq(s, i + 1, Len(s))>>

\* the lines 'for line in f' yields: each keeps its newline
RECURSIVE FileLines(_)
FileLines(text) ==
    IF text = <<>> THEN <<>>
    ELSE LET i == IndexOf(text, "\n") IN
         IF i = 0 THEN <<text>>
         ELSE <<SubSeq(text, 1, i)>> \o FileLines(SubSeq(text, i + 1, Len(text)))

\* the assignment adding to the value the name already has
SetItemMutant(props, name, value) ==
    [k \in (DOMAIN props) \cup {name} |->
        IF k # name THEN props[k]
        ELSE IF name \in DOMAIN props THEN props[name] \o value ELSE value]

\* properties[name] = value
SetItem(props, name, value) ==
    [k \in (DOMAIN props) \cup {name} |-> IF k = name THEN value ELSE props[k]]

\* lines 195-214: the body of the loop, for one line
ReadLine(props, line) ==
    IF line # <<>> /\ Head(line) = "#" THEN props
    ELSE IF \E i \in 1..Len(line) : line[i] = "="
    THEN LET split_line == Split1(Strip(line)) IN
         IF Len(split_line) = 2
         THEN LET prop_name == Strip(split_line[1])
                  prop_value == Strip(split_line[2])
              IN IF prop_name = <<>> \/ prop_value = <<>>
                 THEN props
                 ELSE SetItem(props, prop_name, prop_value)
         ELSE props
    ELSE props

\* lines 194-214: the loop over the lines of the file
RECURSIVE ReadLines(_, _)
ReadLines(props, lines) ==
    IF lines = <<>> THEN props
    ELSE ReadLines(ReadLine(props, Head(lines)), Tail(lines))

\* Deployment.read_deployment_properties called from __init__ (line 100),
\* the file being there and readable
read_deployment_properties ==
    /\ ctorPc = "read"
    /\ depPc = "new"
    /\ properties' = ReadLines(properties, FileLines(file))
    /\ depPc' = "loaded"
    /\ UNCHANGED <<file, lookupArg, query>>
    /\ UNCHANGED nonDepVars

\* no run_command call is in play
RunIdle ==
    /\ command = [isList |-> TRUE, items |-> <<"sh">>]
    /\ output = TRUE
    /\ rcPc = "idle"
    /\ subproc = "none"
    /\ returncode = NoValue
    /\ exitedBy = "none"
    /\ timer = "none"
    /\ finished = FALSE
    /\ code = NoValue
    /\ result = NoValue
    /\ error = NoValue
    /\ lateKill = FALSE
    /\ strayKill = "none"

(***************************************************************************)
(* Well-formed properties files: up to MaxProps lines name=value           *)
(***************************************************************************)
MaxKeyLen == 2      \* longest property name of a well-formed file
MaxProps == 2       \* most lines of a well-formed file
MaxRegexLen == 2    \* longest string passed to a lookup

KeyChars == {"a", "."}
Keys == UNION {[1..n -> KeyChars] : n \in 1..MaxKeyLen}
Values == {<<"x">>, <<"y">>}

RECURSIVE SetToSeq(_)
SetToSeq(S) ==
    IF S = {} THEN <<>>
    ELSE LET x == CHOOSE y \in S : TRUE IN <<x>> \o SetToSeq(S \ {x})

RECURSIVE Concat(_)
Concat(lines) ==
    IF lines = <<>> THEN <<>> ELSE Head(lines) \o Concat(Tail(lines))

\* the file with one line name=value per name of the assignment m
FileOf(m) ==
    LET names == SetToSeq(DOMAIN m) IN
    Concat([i \in 1..Len(names) |-> names[i] \o <<"=">> \o m[names[i]] \o <<"\n">>])

PropFiles ==
    {FileOf(m) : m \in UNION {[K -> Values] :
                    K \in {S \in SUBSET Keys : Cardinality(S) <= MaxProps}}}

\* a Deployment being constructed (line 69: self.properties = {}), over any
\* short text or any well-formed properties file
ParseInit ==
    /\ file \in ParseFiles \cup PropFiles
    /\ properties = <<>>
    /\ depPc = "new"
    /\ lookupArg = <<>>
    /\ query = [op |-> "none", ret |-> NoValue]
    /\ CtorAtRead

ParseNext == read_deployment_properties

InitParse == ParseInit /\ RunIdle /\ RetryIdle /\ RestIdle

SpecParse == InitParse /\ [][ParseNext]_vars

(***************************************************************************)
(* The parse the property claims refer to, stated line by line             *)
(***************************************************************************)
\* s without its leading and trailing whitespace
Trimmed(s) ==
    LET solid == {i \in 1..Len(s) : ~IsSpace(s[i])} IN
    IF solid = {} THEN <<>>
    ELSE SubSeq(s, CHOOSE i \in solid : \A j \in solid : i <= j,
                   CHOOSE i \in solid : \A j \in solid : j <= i)

FirstEq(line) == CHOOSE i \in 1..Len(line) :
                    line[i] = "=" /\ \A j \in 1..(i - 1) : line[j] # "="

HasEq(line) == \E i \in 1..Len(line) : line[i] = "="

RefName(line) == Trimmed(SubSeq(line, 1, FirstEq(line) - 1))
RefValue(line) == Trimmed(SubSeq(line, FirstEq(line) + 1, Len(line)))

\* the line contributes a pair
Contributes(line) ==
    /\ line # <<>>
    /\ Head(line) # "#"
    /\ HasEq(line)
    /\ RefName(line) # <<>>
    /\ RefValue(line) # <<>>

\* the map the lines stand for: the last contributing line of a name wins
RefMap(lines) ==
    LET good == {i \in 1..Len(lines) : Contributes(lines[i])}
        names == {RefName(lines[i]) : i \in good}
        last(n) == CHOOSE i \in good :
                      /\ RefName(lines[i]) = n
                      /\ \A j \in good : RefName(lines[j]) = n => j <= i
    IN [n \in names |-> RefValue(lines[last(n)])]

\* C4: after the load of a new Deployment, properties is the map the
\* reference parse gives for the file: first '=' splits, both sides trimmed,
\* pairs with an empty side and all other lines dropped, last line wins.
C4_LoadIsReferenceParse ==
    depPc = "loaded" => properties = RefMap(FileLines(file))

\* the line key=a=b gives key -> a=b
C4_Witness ==
    /\ depPc = "loaded"
    /\ file = <<"a", "=", "a", "=", "a">>
    /\ properties = (<<"a">> :> <<"a", "=", "a">>)

IsTrimmedNonEmpty(s) ==
    /\ s # <<>>
    /\ ~IsSpace(s[1])
    /\ ~IsSpace(s[Len(s)])

\* C5: after a load every name and every value stored is non-empty and has
\* no whitespace at either end; a file whose lines all have an empty side
\* stores nothing.
C5_StoredTextTrimmed ==
    depPc = "loaded" =>
        /\ \A k \in DOMAIN properties :
              IsTrimmedNonEmpty(k) /\ IsTrimmedNonEmpty(properties[k])
        /\ (\A i \in 1..Len(FileLines(file)) :
               LET line == FileLines(file)[i] IN
               HasEq(line) => (RefName(line) = <<>> \/ RefValue(line) = <<>>))
           => properties = <<>>

\* a value written with blanks around it is stored without them, and the
\* line 'a=' beside it stores nothing
C5_Witness ==
    /\ depPc = "loaded"
    /\ file = <<"a", "=", "\n", "a", "=", " ", "#">>
    /\ properties = (<<"a">> :> <<"#">>)

(***************************************************************************)
(* deployment.Deployment: get_property and get_value                       *)
(***************************************************************************)
\* the strings passed to the lookups: literals, '.', '^' and '$'
RegexChars == {"a", ".", "^", "$"}
Regexes == UNION {[1..n -> RegexChars] : n \in 0..MaxRegexLen}

\* the pattern from its i-th item on matches str from position j on
RECURSIVE MatchHere(_, _, _, _)
MatchHere(regex, i, str, j) ==
    IF i > Len(regex) THEN TRUE
    ELSE IF regex[i] = "^" THEN j = 1 /\ MatchHere(regex, i + 1, str, j)
    ELSE IF regex[i] = "$"
         THEN j = Len(str) + 1 /\ MatchHere(regex, i + 1, str, j)
    ELSE /\ j <= Len(str)
         /\ (regex[i] = "." \/ regex[i] = str[j])
         /\ MatchHere(regex, i + 1, str, j + 1)

\* re.search(regex, str) finds a match
re_search(regex, str) ==
    \E j \in 1..(Len(str) + 1) : MatchHere(regex, 1, str, j)

\* lines 235-239 (and 263-272): the names the pattern matches
prop_list_matched(props, regex) ==
    {prop_name \in DOMAIN props : re_search(regex, prop_name)}

\* get_property settling for any of several matching names
get_propertyAnyMutant(props, regex) ==
    LET matched == prop_list_matched(props, regex) IN
    IF matched # {} THEN Some(CHOOSE m \in matched : TRUE) ELSE NoValue

\* get_property as its docstring has it: None for more than one match
get_propertyMutant(props, regex) ==
    LET matched == prop_list_matched(props, regex) IN
    IF Cardinality(matched) = 1
    THEN Some(CHOOSE m \in matched : TRUE)
    ELSE NoValue

\* Deployment.get_property, lines 235-253
get_property(props, regex) ==
    LET matched == prop_list_matched(props, regex) IN
    IF Cardinality(matched) = 1
    THEN Some(CHOOSE m \in matched : TRUE)
    ELSE IF Cardinality(matched) > 1
    THEN IF \E matched_prop \in matched : matched_prop = regex
         THEN Some(regex)
         ELSE NoValue
    ELSE NoValue

\* Deployment.get_value, lines 289-295
get_value(props, property_name) ==
    LET prop == get_property(props, property_name) IN
    IF prop = NoValue \/ Val(prop) = <<>> THEN NoValue
    ELSE Some(props[Val(prop)])

CallGetProperty ==
    /\ depPc = "loaded"
    /\ query' = [op |-> "get_property",
                 ret |-> get_property(properties, lookupArg)]
    /\ UNCHANGED <<file, properties, depPc, lookupArg>>
    /\ UNCHANGED nonDepVars

CallGetValue ==
    /\ depPc = "loaded"
    /\ query' = [op |-> "get_value",
                 ret |-> get_value(properties, lookupArg)]
    /\ UNCHANGED <<file, properties, depPc, lookupArg>>
    /\ UNCHANGED nonDepVars

\* a Deployment being constructed over a well-formed properties file, and
\* the string its caller will look up
LookupInit ==
    /\ file \in PropFiles
    /\ properties = <<>>
    /\ depPc = "new"
    /\ lookupArg \in Regexes
    /\ query = [op |-> "none", ret |-> NoValue]
    /\ CtorAtRead

LookupNext ==
    \/ read_deployment_properties
    \/ CallGetProperty
    \/ CallGetValue

InitLookup == LookupInit /\ RunIdle /\ RetryIdle /\ RestIdle

SpecLookup == InitLookup /\ [][LookupNext]_vars

C20_GetValueByName ==
    query.op = "get_value" =>
        query.ret = IF lookupArg \in DOMAIN properties
                    THEN Some(properties[lookupArg])
                    ELSE NoValue


PropLines == {k \o <<"=">> \o v \o <<"\n">> : k \in Keys, v \in Values}

\* the files of up to MaxProps such lines; a name may come twice
LineFiles ==
    {Concat(ls) : ls \in UNION {[1..n -> PropLines] : n \in 0..MaxProps}}

\* lines 67-96: the fields as __init__ first sets them
CtorInit ==
    /\ file \in LineFiles
    /\ properties = <<>>
    /\ depPc = "new"
    /\ lookupArg = <<>>
    /\ query = [op |-> "none", ret |-> NoValue]
    /\ ctorPc = "home"
    /\ ctorErr = NoValue
    /\ fileState = "ok"
    /\ roleEnv = NoValue
    /\ roleFrom = "none"
    /\ cons3rt_role_name = Some(<<>>)
    /\ other = NoValue

\* lines 98-102: the except clause of __init__ re-raises DeploymentError; any
\* other exception passes through it untouched
InitHandler(ex) == ex

\* set_deployment_home, lines 113-162: it finds the deployment home, raises
\* DeploymentError (lines 130-153), or os.listdir (line 141, outside any try)
\* raises OSError
set_deployment_home ==
    /\ ctorPc = "home"
    /\ \E outcome \in {"found", "DeploymentError", "OSError"} :
         IF outcome = "found"
         THEN ctorPc' = "read" /\ ctorErr' = NoValue
         ELSE ctorPc' = "raised" /\ ctorErr' = Some(InitHandler(outcome))
    /\ UNCHANGED <<fileState, roleEnv, roleFrom, cons3rt_role_name, other>>
    /\ UNCHANGED depVars
    /\ UNCHANGED nonCtorVars

\* read_deployment_properties, lines 176-180: os.path.isfile says no
ReadMissing ==
    /\ ctorPc = "read"
    /\ depPc = "new"
    /\ fileState' = "missing"
    /\ ctorPc' = "raised"
    /\ ctorErr' = Some(InitHandler("DeploymentError"))
    /\ UNCHANGED <<roleEnv, roleFrom, cons3rt_role_name, other>>
    /\ UNCHANGED depVars
    /\ UNCHANGED nonCtorVars

\* lines 185-192: what the handler around open() raises for the exception ex
OpenHandler(ex) ==
    IF ex \in {"IOError", "OSError"} THEN "DeploymentError" ELSE ex

\* read_deployment_properties, lines 184-192: open() fails
ReadUnopenable ==
    /\ ctorPc = "read"
    /\ depPc = "new"
    /\ \E ex \in {"IOError", "OSError"} :
         ctorErr' = Some(InitHandler(OpenHandler(ex)))
    /\ fileState' = "unopenable"
    /\ ctorPc' = "raised"
    /\ UNCHANGED <<roleEnv, roleFrom, cons3rt_role_name, other>>
    /\ UNCHANGED depVars
    /\ UNCHANGED nonCtorVars

\* read_deployment_properties, lines 194-214: the file opens, and reading it
\* fails with IOError after some of its lines; the loop is inside no try, so
\* the IOError leaves the method as it is
ReadUnreadable ==
    /\ ctorPc = "read"
    /\ depPc = "new"
    /\ LET lines == FileLines(file) IN
       \E n \in 0..Len(lines) :
         properties' = ReadLines(properties, SubSeq(lines, 1, n))
    /\ fileState' = "unreadable"
    /\ ctorPc' = "raised"
    /\ ctorErr' = Some(InitHandler("IOError"))
    /\ UNCHANGED <<roleEnv, roleFrom, cons3rt_role_name, other>>
    /\ UNCHANGED <<file, depPc, lookupArg, query>>
    /\ UNCHANGED nonCtorVars

\* determine_cons3rt_role_name_linux, lines 322-394: the role name it sets,
\* or NoValue where it raises DeploymentError.  ips is what get_ip_addresses
\* gave ("CommandError", "no_eth0" or "eth0"), opened whether the properties
\* file opened, nMatched the number of lines matching the eth0 pattern and
\* nParts the number of dot-separated parts of the matching line
determine_cons3rt_role_name_linux(ips, opened, nMatched, nParts) ==
    IF ips # "eth0" THEN NoValue
    ELSE IF ~opened THEN NoValue
    ELSE IF nMatched = 1 /\ nParts > 5 THEN Some(<<"r">>)
    ELSE NoValue

\* set_cons3rt_role_name, lines 297-320, called at line 103
set_cons3rt_role_name ==
    /\ ctorPc = "read"
    /\ depPc = "loaded"
    /\ \E env \in {NoValue, Some(<<"e">>)}, system \in {"Linux", "Windows"},
          ips \in {"CommandError", "no_eth0", "eth0"}, opened \in BOOLEAN,
          nMatched \in 0..2, nParts \in {5, 6} :
         /\ roleEnv' = env
         /\ IF env # NoValue
            THEN /\ cons3rt_role_name' = env
                 /\ roleFrom' = "env"
                 /\ ctorPc' = "rest"
                 /\ ctorErr' = NoValue
            ELSE IF system = "Linux"
            THEN LET name == determine_cons3rt_role_name_linux(
                                 ips, opened, nMatched, nParts) IN
                 IF name # NoValue
                 THEN /\ cons3rt_role_name' = name
                      /\ roleFrom' = "properties"
                      /\ ctorPc' = "rest"
                      /\ ctorErr' = NoValue
                 ELSE /\ ctorPc' = "raised"
                      /\ ctorErr' = Some("DeploymentError")
                      /\ UNCHANGED <<cons3rt_role_name, roleFrom>>
            ELSE /\ ctorPc' = "rest"
                 /\ UNCHANGED <<cons3rt_role_name, roleFrom, ctorErr>>
    /\ UNCHANGED <<fileState, other>>
    /\ UNCHANGED depVars
    /\ UNCHANGED nonCtorVars

\* lines 104-111: the remaining setters; none raises, none touches the
\* properties or the role name
FinishInit ==
    /\ ctorPc = "rest"
    /\ ctorPc' = "constructed"
    /\ UNCHANGED <<ctorErr, fileState, roleEnv, roleFrom, cons3rt_role_name,
                   other>>
    /\ UNCHANGED depVars
    /\ UNCHANGED nonCtorVars

\* read_deployment_properties called again on the constructed object: the
\* method never empties self.properties (line 69 is in __init__ only)
Reread ==
    /\ ctorPc = "constructed"
    /\ depPc = "loaded"
    /\ properties' = ReadLines(properties, FileLines(file))
    /\ depPc' = "reread"
    /\ UNCHANGED <<file, lookupArg, query>>
    /\ UNCHANGED ctorVars
    /\ UNCHANGED nonCtorVars

\* a second Deployment constructed over the same file: line 69, then the
\* loop of lines 194-214
ConstructOther ==
    /\ ctorPc = "constructed"
    /\ other = NoValue
    /\ other' = Some(ReadLines(<<>>, FileLines(file)))
    /\ UNCHANGED <<ctorPc, ctorErr, fileState, roleEnv, roleFrom,
                   cons3rt_role_name>>
    /\ UNCHANGED depVars
    /\ UNCHANGED nonCtorVars

CtorNext ==
    \/ set_deployment_home
    \/ read_deployment_properties
    \/ ReadMissing
    \/ ReadUnopenable
    \/ ReadUnreadable
    \/ set_cons3rt_role_name
    \/ FinishInit
    \/ Reread
    \/ ConstructOther

InitCtor == CtorInit /\ RunIdle /\ RetryIdle /\ RestIdle

SpecCtor == InitCtor /\ [][CtorNext]_vars

\* C11: whenever the properties file is missing, cannot be opened or cannot
\* be read, the construction fails, and with DeploymentError.
C11_FileFailureIsDeploymentError ==
    fileState # "ok" =>
        ctorPc = "raised" /\ ctorErr = Some("DeploymentError")


\* C17: a second load of the unchanged file leaves the map of the object as
\* the first load made it, and a second Deployment over the same file holds
\* the same map as the first, reread or not.
C17_SameFileSameMap ==
    /\ [](other # NoValue => Val(other) = properties)
    /\ [][depPc = "loaded" /\ depPc' = "reread" =>
            properties' = properties]_vars

\* both kinds of second load have happened, over a file that sets a name twice
C17_Witness ==
    /\ depPc = "reread"
    /\ other # NoValue
    /\ properties # <<>>
    /\ Len(FileLines(file)) > Cardinality(DOMAIN properties)

\* C19: a Deployment constructed with CONS3RT_ROLE_NAME unset and no role
\* name derived from the properties has cons3rt_role_name None.
C19_DefaultRoleNameIsNone ==
    (ctorPc = "constructed" /\ roleEnv = NoValue /\ roleFrom # "properties")
        => cons3rt_role_name = NoValue


(***************************************************************************)
(* The bounded retry loops                                                 *)
(*   s3_private  S3Util.__download_from_s3        s3util.py 154-179        *)
(*   s3_module   s3util.download                  s3util.py 446-467        *)
(*   bucket      S3Util.validate_bucket           s3util.py 95-131         *)
(*   nexus       nexus.query_nexus                nexus.py 53-95           *)
(*   eip         EC2Util.allocate_elastic_ip      ec2util.py 285-311       *)
(* One step is one pass of the loop: the call, the handling of its         *)
(* outcome (sleep included) and, when the loop ends with it, what follows  *)
(* the loop.                                                               *)
(***************************************************************************)
max_tries == 10
max_retries == 6

\* [2]*60 + [5]*60 + [10]*18
verification_timer ==
    [i \in 1..138 |-> IF i <= 60 THEN 2 ELSE IF i <= 120 THEN 5 ELSE 10]
num_checks == Len(verification_timer)

Loops == {"s3_private", "s3_module", "bucket", "nexus", "eip"}

RetryInit ==
    /\ loop \in Loops
    /\ count = 1
    /\ calls = 0
    /\ fails = 0
    /\ sleeps = 0
    /\ lastResp = "none"
    /\ rtPc = "loop"
    /\ rtRet = "none"
    /\ rtErr = "none"

\* 'if count >= max_tries' taken one try late
LastTryMutant(c) == c > max_tries

\* lines 163 and 454: if count >= max_tries
LastTry(c) == c >= max_tries

\* the download loops: while count <= max_tries ... ; a loop that ends
\* without return or raise makes the function return None
S3Download ==
    /\ loop \in {"s3_private", "s3_module"}
    /\ rtPc = "loop"
    /\ count <= max_tries
    /\ calls' = calls + 1
    /\ \E resp \in {"ok", "ClientError"} :
        /\ lastResp' = resp
        /\ IF resp = "ok"
           THEN /\ rtPc' = "returned"
                /\ rtRet' = "destination"
                /\ UNCHANGED <<count, fails, sleeps, rtErr>>
           ELSE /\ fails' = fails + 1
                /\ IF LastTry(count)
                   THEN /\ rtPc' = "raised"
                        /\ rtErr' = "S3UtilError"
                        /\ UNCHANGED <<count, sleeps, rtRet>>
                   ELSE /\ count' = count + 1
                        /\ sleeps' = sleeps + 1
                        /\ IF count + 1 <= max_tries
                           THEN rtPc' = "loop" /\ UNCHANGED rtRet
                           ELSE rtPc' = "returned" /\ rtRet' = "None"
                        /\ UNCHANGED rtErr
    /\ UNCHANGED loop
    /\ UNCHANGED nonRetryVars

\* 500 and 503, and 403 with them
RetriedMutant(resp) == resp \in {"403", "500", "503"}

\* line 113: elif error_code == 500 or error_code == 503
Retried(resp) == resp = "500" \/ resp = "503"

\* S3Util.validate_bucket
ValidateBucket ==
    /\ loop = "bucket"
    /\ rtPc = "loop"
    /\ count <= max_tries
    /\ calls' = calls + 1
    /\ \E resp \in {"ok", "404", "500", "503", "403"} :
        /\ lastResp' = resp
        /\ IF resp = "ok"
           THEN /\ rtPc' = "returned"
                /\ rtRet' = "None"
                /\ UNCHANGED <<count, fails, sleeps, rtErr>>
           ELSE /\ fails' = fails + 1
                /\ IF resp = "404"
                   THEN /\ rtPc' = "raised"
                        /\ rtErr' = "S3UtilError"
                        /\ UNCHANGED <<count, sleeps, rtRet>>
                   ELSE IF Retried(resp)
                   THEN IF count >= max_tries
                        THEN /\ rtPc' = "raised"
                             /\ rtErr' = "S3UtilError"
                             /\ UNCHANGED <<count, sleeps, rtRet>>
                        ELSE /\ sleeps' = sleeps + 1
                             /\ count' = count + 1
                             /\ rtPc' = "loop"
                             /\ UNCHANGED <<rtRet, rtErr>>
                   ELSE /\ rtPc' = "raised"
                        /\ rtErr' = "S3UtilError"
                        /\ UNCHANGED <<count, sleeps, rtRet>>
    /\ UNCHANGED loop
    /\ UNCHANGED nonRetryVars

\* nexus.query_nexus: the loop, then lines 84-95
QueryNexus ==
    /\ loop = "nexus"
    /\ rtPc = "loop"
    /\ count <= max_retries
    /\ calls' = calls + 1
    /\ count' = count + 1
    /\ \E resp \in {"200", "404", "Timeout", "RequestException"} :
        /\ lastResp' = resp
        /\ IF resp \in {"Timeout", "RequestException"}
           THEN /\ fails' = fails + 1
                /\ sleeps' = IF count < max_retries THEN sleeps + 1 ELSE sleeps
                /\ IF count + 1 <= max_retries
                   THEN rtPc' = "loop" /\ UNCHANGED <<rtRet, rtErr>>
                   ELSE /\ rtPc' = "raised"
                        /\ rtErr' = "RuntimeError"
                        /\ UNCHANGED rtRet
           ELSE /\ UNCHANGED <<fails, sleeps>>
                /\ IF resp = "200"
                   THEN /\ rtPc' = "returned"
                        /\ rtRet' = "nexus_response"
                        /\ UNCHANGED rtErr
                   ELSE /\ rtPc' = "raised"
                        /\ rtErr' = "RuntimeError"
                        /\ UNCHANGED rtRet
    /\ UNCHANGED loop
    /\ UNCHANGED nonRetryVars

\* EC2Util.allocate_elastic_ip: the verification loop (count is i + 1), then
\* lines 305-311
VerifyElasticIp ==
    /\ loop = "eip"
    /\ rtPc = "loop"
    /\ count <= num_checks
    /\ calls' = calls + 1
    /\ \E resp \in {"ok", "ClientError"} :
        /\ lastResp' = resp
        /\ IF resp = "ok"
           THEN /\ rtPc' = "returned"
                /\ rtRet' = "AllocationId, PublicIp"
                /\ UNCHANGED <<count, fails, sleeps, rtErr>>
           ELSE /\ fails' = fails + 1
                /\ sleeps' = sleeps + 1
                /\ count' = count + 1
                /\ IF count + 1 <= num_checks
                   THEN rtPc' = "loop" /\ UNCHANGED <<rtRet, rtErr>>
                   ELSE /\ rtPc' = "raised"
                        /\ rtErr' = "EC2UtilError"
                        /\ UNCHANGED rtRet
    /\ UNCHANGED loop
    /\ UNCHANGED nonRetryVars

RetryNext ==
    \/ S3Download
    \/ ValidateBucket
    \/ QueryNexus
    \/ VerifyElasticIp

InitRetry == RetryInit /\ RunIdle /\ DepIdle /\ RestIdle

SpecRetry == InitRetry /\ [][RetryNext]_vars

RetryLeft == rtPc \in {"returned", "raised"}

C7_NoSleepAfterLastAttempt ==
    RetryLeft => sleeps = calls - 1

\* C8: in validate_bucket a 404 raises at once, with no sleep after the
\* call; only 500 and 503 lead to another call; there are at most 10 calls;
\* a normal return follows a successful call.
C8_ValidateBucket ==
    loop = "bucket" =>
        /\ calls <= max_tries
        /\ lastResp = "404" =>
              /\ rtPc = "raised"
              /\ rtErr = "S3UtilError"
              /\ sleeps = calls - 1
        /\ (rtPc = "loop" /\ calls > 0) => lastResp \in {"500", "503"}
        /\ lastResp = "403" => rtPc = "raised"
        /\ rtPc = "returned" => lastResp = "ok"
        /\ sleeps <= fails

\* the first head_bucket call answers 404
C8_Witness ==
    /\ loop = "bucket"
    /\ lastResp = "404"
    /\ rtPc = "raised"
    /\ calls = 1
    /\ sleeps = 0

(***************************************************************************)
(* The operations of the remote facades, one call at a time                *)
(*   S3Util.download_file_by_key, upload_file   awsapi/s3util.py           *)
(*   EC2Util.attach_new_eni                      awsapi/ec2util.py          *)
(*   nexus.get_artifact                          nexus.py                   *)
(*   alias_ip_address                            aliasip.py                 *)
(*   SlackMessage.send                           slack.py                   *)
(*   Cons3rtUtil.create_user, create_project     cons3rtutil.py             *)
(* An argument is the kind of value passed: "str", "int", "list", "bool",  *)
(* "none" (None) or "missing" (a keyword argument not passed).  A message  *)
(* is the sequence of its fragments.  One step is the whole call; what the *)
(* file system and the remote services answer is chosen in the step.       *)
(***************************************************************************)
\* a call that returned v after the external calls made
Returned(v, made) ==
    [pc |-> "returned", ret |-> Some(v), err |-> NoValue, calls |-> made]

\* a call that raised after the external calls made
Raised(type, msg, made) ==
    [pc |-> "raised", ret |-> NoValue,
     err |-> Some([type |-> type, msg |-> msg]), calls |-> made]

\* the first failAt - 1 calls of names succeed and call failAt fails; all
\* succeed when failAt = 0
CallsMade(names, failAt) ==
    IF failAt = 0 THEN [i \in 1..Len(names) |-> [call |-> names[i], ok |-> TRUE]]
    ELSE [i \in 1..failAt |-> [call |-> names[i], ok |-> i < failAt]]

\* S3Util.download_file_by_key, s3util.py 181-208; isdir is what
\* os.path.isdir(dest_dir) says, dl how __download_from_s3 ends
download_file_by_key(args, isdir, dl) ==
    IF args.key # "str" THEN Returned("None", <<>>)
    ELSE IF args.dest_dir # "str" THEN Returned("None", <<>>)
    ELSE IF ~isdir THEN Returned("None", <<>>)
    ELSE IF dl = "ok"
    THEN Returned("dest_path", CallsMade(<<"s3client.download_file">>, 0))
    ELSE Raised("S3UtilError", <<"Unable to download key">>,
                CallsMade(<<"s3client.download_file">>, 1))

\* S3Util.upload_file, s3util.py 305-341
upload_file(args, isfile, up) ==
    IF args.filepath # "str" THEN Returned("False", <<>>)
    ELSE IF args.key # "str" THEN Returned("False", <<>>)
    ELSE IF ~isfile THEN Returned("False", <<>>)
    ELSE IF up = "ok"
    THEN Returned("True", CallsMade(<<"s3client.upload_file">>, 0))
    ELSE Returned("False", CallsMade(<<"s3client.upload_file">>, 1))

\* the API calls of attach_new_eni, in order (lines 365, 392, 426, 446, 468)
EniCalls(args) ==
    <<"describe_subnets", "create_network_interface",
      "describe_network_interfaces">>
    \o (IF args.allocation_id = "none" THEN <<>> ELSE <<"associate_address">>)
    \o <<"attach_network_interface">>

\* the error attach_new_eni raises when the named API call fails
EniError(name) ==
    IF name \in {"describe_subnets", "describe_network_interfaces"}
    THEN "EC2UtilError" ELSE "AWSAPIError"

\* EC2Util.attach_new_eni, ec2util.py 313-485; selfIds says that
\* self.instance_id and self.vpc_id are set, failAt which API call fails
attach_new_eni(args, selfIds, failAt) ==
    IF args.security_group_ids # "list"
    THEN Raised("EC2UtilError",
                <<"security_group_name", " argument is not a string">>, <<>>)
    ELSE IF args.subnet_name # "str"
    THEN Raised("EC2UtilError",
                <<"subnet_name", " argument is not a string">>, <<>>)
    ELSE IF args.allocation_id \notin {"none", "str"}
    THEN Raised("EC2UtilError",
                <<"allocation_id", " argument is not a string">>, <<>>)
    ELSE IF args.device_index = "str"
    THEN Raised("EC2UtilError",
                <<"device_index", " argument is not an int\n",
                  "invalid literal for int()">>, <<>>)
    ELSE IF args.device_index # "int"
    THEN Raised("TypeError",
                <<"int() argument must be a string or a number">>, <<>>)
    ELSE IF ~selfIds
    THEN Raised("EC2UtilError",
                <<"Unable to obtain instance ID or VPC ID">>, <<>>)
    ELSE LET names == EniCalls(args) IN
         IF failAt = 0 \/ failAt > Len(names)
         THEN Returned("None", CallsMade(names, 0))
         ELSE Raised(EniError(names[failAt]), <<"Unable to ", names[failAt]>>,
                     CallsMade(names, failAt))

\* nexus.py 123: required_args
required_args ==
    <<"group_id", "artifact_id", "packaging", "version", "destination_dir">>

\* nexus.py 142-144: the message for a required argument that was not passed
RequiredArgMsg ==
    <<"A required arg was not supplied. Required args are: ", "group_id",
      ", ", "artifact_id", ", ", "classifier", ", ", "version", ", ",
      "packaging", " and ", "destination_dir", "\n">>

\* nexus.get_artifact, nexus.py 98-302; isdir is what
\* os.path.isdir(destination_dir) says, failAt which external step fails
get_artifact(args, isdir, failAt) ==
    IF args.overwrite # "bool"
    THEN Raised("TypeError",
                <<"overwrite", " arg must be a string, found: ">>, <<>>)
    ELSE IF args.nexus_url # "str"
    THEN Raised("TypeError",
                <<"nexus_url", " arg must be a string, found: ">>, <<>>)
    ELSE IF \E i \in 1..Len(required_args) : args[required_args[i]] # "str"
    THEN LET i == CHOOSE j \in 1..Len(required_args) :
                    /\ args[required_args[j]] # "str"
                    /\ \A k \in 1..(j - 1) : args[required_args[k]] = "str"
         IN IF args[required_args[i]] = "missing"
            THEN Raised("ValueError", RequiredArgMsg, <<>>)
            ELSE Raised("TypeError",
                        <<"Arg ", required_args[i], " should be a string">>,
                        <<>>)
    ELSE LET names == (IF isdir THEN <<>> ELSE <<"mkdir_p">>)
                      \o <<"query_nexus", "iter_content">> IN
         IF failAt = 0 \/ failAt > Len(names)
         THEN Returned("None", CallsMade(names, 0))
         ELSE Raised(IF names[failAt] = "mkdir_p" THEN "OSError"
                     ELSE "RuntimeError",
                     <<"Unable to ", names[failAt]>>, CallsMade(names, failAt))

\* alias_ip_address, aliasip.py 122-273; up is how
\* the command ifconfig <device>:0 <ip> up ends (lines 161-176), files how
\* the work on the interface files ends (lines 178-233), restart how
\* service_network_restart ends (lines 253-258), verify how the closing
\* ifconfig ends (lines 262-273)
alias_ip_address(args, up, files, restart, verify) ==
    IF args.ip_address # "str"
    THEN Raised("TypeError", <<"ip_address", " argument is not a string">>,
                <<>>)
    ELSE LET first == <<[call |-> "ifconfig up", ok |-> up = "ok"]>> IN
         IF files # "ok" THEN Raised("OSError", <<"Unable to ", files>>, first)
         ELSE LET second == first \o
                    <<[call |-> "service_network_restart",
                       ok |-> restart = "ok"]>> IN
              IF restart # "ok"
              THEN Raised("NetworkRestartError",
                          <<"There was a problem restarting network services">>,
                          second)
              ELSE Returned("None", second \o
                        <<[call |-> "ifconfig", ok |-> verify = "ok"]>>)

\* SlackMessage.send, slack.py 123-165; encoded says that the payload
\* encodes as JSON, post how requests.post ends: "ok" (status 200),
\* "ConnectionError", or "status" (any other status code)
send(encoded, post) ==
    IF ~encoded
    THEN Raised("UnboundLocalError",
                <<"local variable 'json_payload' referenced before assignment">>,
                <<>>)
    ELSE IF post = "ConnectionError"
    THEN Raised("OSError", <<"There was a problem posting to Slack">>,
                CallsMade(<<"requests.post">>, 1))
    ELSE IF post = "status"
    THEN Returned("None", CallsMade(<<"requests.post">>, 1))
    ELSE Returned("None", CallsMade(<<"requests.post">>, 0))

\* Cons3rtUtil.create_user, cons3rtutil.py 92-174: failAt says which of the
\* two run_security_admin.sh commands fails (CommandError or exit code)
create_user(failAt) ==
    LET names == <<"-createuser", "-setpassword">> IN
    IF failAt = 0 THEN Returned("dict", CallsMade(names, 0))
    ELSE Raised("Cons3rtUtilError", <<"Unable to ", names[failAt]>>,
                CallsMade(names, failAt))

\* Cons3rtUtil.create_project, cons3rtutil.py 219-256
create_project(args, failAt) ==
    IF args.project_name # "str"
    THEN Raised("Cons3rtUtilError",
                <<"project_name", " argument must be a string">>, <<>>)
    ELSE IF failAt = 0
    THEN Returned("None", CallsMade(<<"-createproject">>, 0))
    ELSE Raised("Cons3rtUtilError", <<"Unable to create project: ">>,
                CallsMade(<<"-createproject">>, 1))

\* the kinds of value a caller may pass
Kinds == {"str", "int", "none"}

\* the calls a caller may make
FacadeCalls ==
    {[op |-> "download_file_by_key", args |-> a] :
        a \in [{"key", "dest_dir"} -> Kinds]}
    \cup {[op |-> "upload_file", args |-> a] :
        a \in [{"filepath", "key"} -> Kinds]}
    \cup {[op |-> "attach_new_eni", args |-> a] :
        a \in [subnet_name : Kinds,
               security_group_ids : {"list", "str", "none"},
               device_index : Kinds,
               allocation_id : Kinds]}
    \cup {[op |-> "get_artifact", args |-> a] :
        a \in [overwrite : {"bool", "str"}, nexus_url : {"str", "int"},
               group_id : {"str", "int", "missing"},
               artifact_id : {"str", "missing"},
               packaging : {"str", "int"},
               version : {"str", "missing"},
               destination_dir : {"str", "int", "missing"}]}
    \cup {[op |-> "alias_ip_address", args |-> a] :
        a \in [ip_address : Kinds]}
    \cup {[op |-> "send", args |-> <<>>]}
    \cup {[op |-> "create_user", args |-> <<>>]}
    \cup {[op |-> "create_project", args |-> a] :
        a \in [project_name : Kinds]}

FacadeInit ==
    /\ \E c \in FacadeCalls : fOp = c.op /\ fArgs = c.args
    /\ existing \in BOOLEAN
    /\ fPc = "call"
    /\ fRet = NoValue
    /\ fErr = NoValue
    /\ fCalls = <<>>

\* the call ends as r says
Finish(r) ==
    /\ fPc' = r.pc
    /\ fRet' = r.ret
    /\ fErr' = r.err
    /\ fCalls' = r.calls
    /\ UNCHANGED <<fOp, fArgs, existing>>
    /\ UNCHANGED nonFacadeVars

Outcomes == {"ok", "failed"}

CallDownloadFileByKey ==
    /\ fPc = "call" /\ fOp = "download_file_by_key"
    /\ \E isdir \in BOOLEAN, dl \in {"ok", "S3UtilError"} :
         Finish(download_file_by_key(fArgs, isdir, dl))

CallUploadFile ==
    /\ fPc = "call" /\ fOp = "upload_file"
    /\ \E isfile \in BOOLEAN, up \in {"ok", "ClientError"} :
         Finish(upload_file(fArgs, isfile, up))

CallAttachNewEni ==
    /\ fPc = "call" /\ fOp = "attach_new_eni"
    /\ \E selfIds \in BOOLEAN, failAt \in 0..5 :
         Finish(attach_new_eni(fArgs, selfIds, failAt))

CallGetArtifact ==
    /\ fPc = "call" /\ fOp = "get_artifact"
    /\ \E isdir \in BOOLEAN, failAt \in 0..3 :
         Finish(get_artifact(fArgs, isdir, failAt))

CallAliasIpAddress ==
    /\ fPc = "call" /\ fOp = "alias_ip_address"
    /\ \E up \in Outcomes, files \in {"ok", "read file", "write to file"},
          restart \in Outcomes, verify \in Outcomes :
         Finish(alias_ip_address(fArgs, up, files, restart, verify))

CallSend ==
    /\ fPc = "call" /\ fOp = "send"
    /\ \E encoded \in BOOLEAN, post \in {"ok", "ConnectionError", "status"} :
         Finish(send(encoded, post))

CallCreateUser ==
    /\ fPc = "call" /\ fOp = "create_user"
    /\ \E failAt \in 0..2 : Finish(create_user(failAt))

CallCreateProject ==
    /\ fPc = "call" /\ fOp = "create_project"
    /\ \E failAt \in 0..1 : Finish(create_project(fArgs, failAt))

FacadeNext ==
    \/ CallDownloadFileByKey
    \/ CallUploadFile
    \/ CallAttachNewEni
    \/ CallGetArtifact
    \/ CallAliasIpAddress
    \/ CallSend
    \/ CallCreateUser
    \/ CallCreateProject

InitFacade ==
    FacadeInit /\ GroupIdle /\ DynIdle /\ GitIdle /\ RunIdle /\ DepIdle /\ RetryIdle
        /\ LateIdle

SpecFacade == InitFacade /\ [][FacadeNext]_vars

FacadeLeft == fPc \in {"returned", "raised"}

\* the parameters an operation requires, and the kind each must have
Required(op) ==
    IF op \in {"download_file_by_key"} THEN [key |-> "str", dest_dir |-> "str"]
    ELSE IF op = "upload_file" THEN [filepath |-> "str", key |-> "str"]
    ELSE IF op = "attach_new_eni"
    THEN [subnet_name |-> "str", security_group_ids |-> "list"]
    ELSE IF op = "get_artifact"
    THEN [group_id |-> "str", artifact_id |-> "str", packaging |-> "str",
          version |-> "str", destination_dir |-> "str"]
    ELSE <<>>

\* the required parameters the call passes wrongly or not at all
BadParams == {p \in DOMAIN Required(fOp) : fArgs[p] # Required(fOp)[p]}

\* C12: a call of download_file_by_key, upload_file, attach_new_eni or
\* get_artifact with a required parameter missing or of the wrong type
\* raises an error whose message names such a parameter, and makes no
\* external call.
C12_FailFastNamesParameter ==
    (FacadeLeft /\ BadParams # {}) =>
        /\ fPc = "raised"
        /\ fCalls = <<>>
        /\ \E p \in BadParams, i \in 1..Len(Val(fErr).msg) :
                Val(fErr).msg[i] = p

\* C14: create_user and create_project issue the creation command only
\* after a query for the name, and not at all when the name exists.
C14_QueryBeforeCreate ==
    (fOp \in {"create_user", "create_project"} /\ fCalls # <<>>) =>
        /\ fCalls[1].call \notin {"-createuser", "-createproject"}
        /\ existing =>
             \A i \in 1..Len(fCalls) :
                fCalls[i].call \notin {"-createuser", "-createproject"}

\* C16: an operation one of whose external commands or API calls failed
\* raises; it does not return.
C16_FailureRaises ==
    (FacadeLeft /\ \E i \in 1..Len(fCalls) : ~fCalls[i].ok) => fPc = "raised"


(***************************************************************************)
(* EC2Util.create_security_group called by two callers                     *)
(*                                             awsapi/ec2util.py 586-667   *)
(* A caller takes three steps: the validation of its arguments, the        *)
(* describe_security_groups call with the handling of its answer, and the  *)
(* create_security_group call.  A group name is unique within the VPC, so  *)
(* the describe call reports no group or one, and a group it reports       *)
(* carries its GroupId.                                                    *)
(***************************************************************************)
Callers == {"c1", "c2"}

GroupNames == {"g", "h"}

\* the GroupId the service gives the group of a name
GroupId(name) == IF name = "g" THEN "sg-g" ELSE "sg-h"

\* the arguments of one call, with the self.vpc_id of the EC2Util called
SgCalls ==
    [name : GroupNames, nameKind : {"str", "int"},
     descKind : {"str", "int"}, vpc_id : {"none", "vpc"},
     selfVpc : {"none", "vpc"}]

GroupInit ==
    /\ groups \in UNION {[S -> {"sg"}] : S \in SUBSET GroupNames}
    /\ sgArgs \in [Callers -> SgCalls]
    /\ sgPc = [c \in Callers |-> "call"]
    /\ sgSeen = [c \in Callers |-> NoValue]
    /\ sgRet = [c \in Callers |-> NoValue]
    /\ sgErr = [c \in Callers |-> NoValue]
    /\ sgCalls = [c \in Callers |-> <<>>]

\* lines 598-611: the validation of the arguments
SgValidate(c) ==
    /\ sgPc[c] = "call"
    /\ LET a == sgArgs[c] IN
       IF a.nameKind # "str" \/ a.descKind # "str"
       THEN /\ sgPc' = [sgPc EXCEPT ![c] = "raised"]
            /\ sgErr' = [sgErr EXCEPT ![c] = Some("EC2UtilError")]
       ELSE IF a.vpc_id = "none" /\ a.selfVpc # "none"
       THEN /\ sgPc' = [sgPc EXCEPT ![c] = "describe"]
            /\ UNCHANGED sgErr
       ELSE /\ sgPc' = [sgPc EXCEPT ![c] = "raised"]
            /\ sgErr' = [sgErr EXCEPT ![c] = Some("EC2UtilError")]
    /\ UNCHANGED <<groups, sgArgs, sgSeen, sgRet, sgCalls>>
    /\ UNCHANGED nonGroupVars

\* line 632: a group of the name was found
ExistsMutant(n) == n > 1

\* line 632: len(response['SecurityGroups']) == 1
Exists(n) == n = 1

\* lines 613-645: the query for a group of the name, and the return of its
\* GroupId when there is one
SgDescribe(c) ==
    /\ sgPc[c] = "describe"
    /\ sgCalls' = [sgCalls EXCEPT ![c] = @ \o <<"describe_security_groups">>]
    /\ \E answer \in {"ok", "ClientError"} :
         IF answer = "ClientError"
         THEN /\ sgPc' = [sgPc EXCEPT ![c] = "raised"]
              /\ sgErr' = [sgErr EXCEPT ![c] = Some("AWSAPIError")]
              /\ UNCHANGED <<sgSeen, sgRet>>
         ELSE LET name == sgArgs[c].name
                  n == IF name \in DOMAIN groups THEN 1 ELSE 0
              IN /\ sgSeen' = [sgSeen EXCEPT ![c] = Some(n)]
                 /\ UNCHANGED sgErr
                 /\ IF Exists(n)
                    THEN /\ sgPc' = [sgPc EXCEPT ![c] = "returned"]
                         /\ sgRet' = [sgRet EXCEPT ![c] = Some(GroupId(name))]
                    ELSE /\ sgPc' = [sgPc EXCEPT ![c] = "create"]
                         /\ UNCHANGED sgRet
    /\ UNCHANGED <<groups, sgArgs>>
    /\ UNCHANGED nonGroupVars

\* the creation looking for the group once more, and returning the GroupId
\* of a group made in the meantime without a create call
SgCreateMutant(c) ==
    /\ sgPc[c] = "create"
    /\ LET name == sgArgs[c].name IN
       IF name \in DOMAIN groups
       THEN /\ sgPc' = [sgPc EXCEPT ![c] = "returned"]
            /\ sgRet' = [sgRet EXCEPT ![c] = Some(GroupId(name))]
            /\ UNCHANGED <<groups, sgCalls>>
       ELSE /\ sgCalls' = [sgCalls EXCEPT ![c] = @ \o <<"create_security_group">>]
            /\ groups' = [k \in DOMAIN groups \cup {name} |-> "sg"]
            /\ sgPc' = [sgPc EXCEPT ![c] = "returned"]
            /\ sgRet' = [sgRet EXCEPT ![c] = Some(GroupId(name))]
    /\ UNCHANGED <<sgArgs, sgSeen, sgErr>>
    /\ UNCHANGED nonGroupVars

\* lines 647-667: the create call; the service refuses a name the VPC has
\* already (ClientError), and may fail for other reasons
SgCreate(c) ==
    /\ sgPc[c] = "create"
    /\ sgCalls' = [sgCalls EXCEPT ![c] = @ \o <<"create_security_group">>]
    /\ LET name == sgArgs[c].name IN
       \E answer \in {"ok", "ClientError"} :
         IF answer = "ClientError" \/ name \in DOMAIN groups
         THEN /\ sgPc' = [sgPc EXCEPT ![c] = "raised"]
              /\ sgErr' = [sgErr EXCEPT ![c] = Some("AWSAPIError")]
              /\ UNCHANGED <<groups, sgRet>>
         ELSE /\ groups' = [k \in DOMAIN groups \cup {name} |-> "sg"]
              /\ sgPc' = [sgPc EXCEPT ![c] = "returned"]
              /\ sgRet' = [sgRet EXCEPT ![c] = Some(GroupId(name))]
              /\ UNCHANGED sgErr
    /\ UNCHANGED <<sgArgs, sgSeen>>
    /\ UNCHANGED nonGroupVars

GroupNext ==
    \/ \E c \in Callers : SgValidate(c)
    \/ \E c \in Callers : SgDescribe(c)
    \/ \E c \in Callers : SgCreate(c)

InitGroup ==
    GroupInit /\ FacadeIdle /\ DynIdle /\ GitIdle /\ RunIdle /\ DepIdle /\ RetryIdle
        /\ LateIdle

SpecGroup == InitGroup /\ [][GroupNext]_vars

\* the caller has issued the create call
Created(c) ==
    \E i \in 1..Len(sgCalls[c]) : sgCalls[c][i] = "create_security_group"

\* C13: a caller whose query reported a group of the name returns that
\* group's GroupId and never calls create; a caller calls create only after
\* its query, and only when the query reported no group of the name.
C13_CreateOnlyAfterEmptyQuery ==
    \A c \in Callers :
        /\ sgSeen[c] = Some(1) =>
              /\ sgPc[c] = "returned"
              /\ sgRet[c] = Some(GroupId(sgArgs[c].name))
              /\ ~Created(c)
        /\ Created(c) =>
              /\ sgSeen[c] = Some(0)
              /\ sgCalls[c] =
                    <<"describe_security_groups", "create_security_group">>

\* one caller created the group and the other, querying later, was given
\* its GroupId
C13_Witness ==
    /\ Created("c1")
    /\ sgPc["c1"] = "returned"
    /\ sgSeen["c2"] = Some(1)
    /\ sgPc["c2"] = "returned"
    /\ sgRet["c2"] = sgRet["c1"]

\* C15: nothing ties a caller's create call to the state of the VPC at the
\* time of the call: a caller whose query reported no group issues the
\* create call whatever the other caller has done since, so two callers who
\* both saw no group both issue it.
C15_CheckAndCreateNotAtomic ==
    \A c \in Callers :
        (sgSeen[c] = Some(0) /\ sgPc[c] \in {"returned", "raised"}) =>
            Created(c)

\* both callers ask for the same name, both were told there is no such
\* group, and both have issued the create call
C15_Witness ==
    /\ sgArgs["c1"].name = sgArgs["c2"].name
    /\ \A c \in Callers : sgSeen[c] = Some(0) /\ Created(c)


(***************************************************************************)
(* dyndict.DynDict and getdict                           dyndict.py 12-29  *)
(* A stored value is [callable, v]: a plain value v, or a callable whose   *)
(* call with the dict gives v.  Values are written as Python writes them.  *)
(***************************************************************************)
MaxDynKeys == 2     \* most keys of a DynDict

DynKeys == 1..MaxDynKeys

PyValues == {"0", "1", "''", "'x'", "None", "False", "True"}

\* the values Python takes as true
Truthy(v) == v \in {"1", "'x'", "True"}

Stored == [callable : BOOLEAN, v : PyValues]

\* a value that is no callable
Plain(v) == [callable |-> FALSE, v |-> v]

\* DynDict.__getitem__, lines 15-17:
\*     return callable(val) and val(self) or val
\* the or gives val itself whenever the left side is false, which it is for
\* a val that is not callable and for a call whose result is false
getitem(d, key) ==
    LET val == d[key] IN
    IF val.callable /\ Truthy(val.v) THEN Plain(val.v) ELSE val

\* getdict, lines 20-29
getdict(source) == [var \in DOMAIN source |-> getitem(source, var)]

DynInit ==
    /\ dyn \in UNION {[K -> Stored] : K \in SUBSET DynKeys}
    /\ dynKey = NoValue
    /\ dynGot = NoValue
    /\ std_dict = NoValue

\* d[key]
Index ==
    /\ \E key \in DOMAIN dyn :
         /\ dynKey' = Some(key)
         /\ dynGot' = Some(getitem(dyn, key))
    /\ UNCHANGED <<dyn, std_dict>>
    /\ UNCHANGED nonDynVars

\* getdict(d)
GetDict ==
    /\ std_dict = NoValue
    /\ std_dict' = Some(getdict(dyn))
    /\ UNCHANGED <<dyn, dynKey, dynGot>>
    /\ UNCHANGED nonDynVars

DynNext == Index \/ GetDict

InitDyn ==
    DynInit /\ FacadeIdle /\ GroupIdle /\ GitIdle /\ RunIdle /\ DepIdle /\ RetryIdle
        /\ LateIdle

SpecDyn == InitDyn /\ [][DynNext]_vars

\* what indexing a stored value is to give: the result of the call for a
\* callable, the value itself otherwise
Computed(val) == IF val.callable THEN Plain(val.v) ELSE val

\* C18: indexing a key gives the result of calling its value with the dict
\* when the value is callable, whatever the result, and the value itself
\* otherwise; getdict gives the dict of these for every key.
C18_IndexGivesCallResult ==
    /\ dynKey # NoValue => Val(dynGot) = Computed(dyn[Val(dynKey)])
    /\ std_dict # NoValue =>
         Val(std_dict) = [k \in DOMAIN dyn |-> Computed(dyn[k])]


\* C22: with a name and a description that are strings, create_security_group
\* raises EC2UtilError only when neither the vpc_id argument nor self.vpc_id
\* is there; a call that passes vpc_id goes on to the query.
C22_GivenVpcIsUsed ==
    \A c \in Callers :
        (/\ sgArgs[c].nameKind = "str"
         /\ sgArgs[c].descKind = "str"
         /\ sgErr[c] = Some("EC2UtilError")) =>
            (sgArgs[c].vpc_id = "none" /\ sgArgs[c].selfVpc = "none")


(***************************************************************************)
(* pygit.git_clone                                       pygit.py 30-134   *)
(***************************************************************************)
MaxRetriesArg == 3  \* largest max_retries a caller passes

\* the calls of git_clone: max_retries is any int, also 0 or negative, or
\* no int at all (NoValue)
GitCalls ==
    [urlKind : {"str", "none"}, dirKind : {"str", "none"},
     max_retries : {NoValue} \cup {Some(n) : n \in -1..MaxRetriesArg},
     retryKind : {"int", "str"}, git_cmd : {"none", "str"}]

GitInit ==
    /\ gitArgs \in GitCalls
    /\ gitPc = "validate"
    /\ gitI = 0
    /\ gitRuns = 0
    /\ gitSleeps = 0
    /\ gitOk = FALSE
    /\ gitRaisedAt = "none"

\* lines 46-61: the validation of the arguments
GitValidate ==
    /\ gitPc = "validate"
    /\ IF \/ gitArgs.urlKind # "str"
          \/ gitArgs.dirKind # "str"
          \/ gitArgs.max_retries = NoValue
          \/ gitArgs.retryKind # "int"
       THEN gitPc' = "raised" /\ gitRaisedAt' = "validate"
       ELSE gitPc' = "find" /\ UNCHANGED gitRaisedAt
    /\ UNCHANGED <<gitArgs, gitI, gitRuns, gitSleeps, gitOk>>
    /\ UNCHANGED nonGitVars

\* lines 73-90: which git when no git_cmd is given, then os.path.isfile
GitFind ==
    /\ gitPc = "find"
    /\ \E which \in {"ok", "CommandError"}, isfile \in BOOLEAN :
         IF (gitArgs.git_cmd = "none" /\ which = "CommandError") \/ ~isfile
         THEN gitPc' = "raised" /\ gitRaisedAt' = "find"
         ELSE gitPc' = "prepare" /\ UNCHANGED gitRaisedAt
    /\ UNCHANGED <<gitArgs, gitI, gitRuns, gitSleeps, gitOk>>
    /\ UNCHANGED nonGitVars

\* lines 93-109: git pull in a clone_dir that exists, else mkdir_p and
\* git clone
GitPrepare ==
    /\ gitPc = "prepare"
    /\ \E isdir \in BOOLEAN, mkdir \in {"ok", "CommandError"} :
         IF ~isdir /\ mkdir = "CommandError"
         THEN gitPc' = "raised" /\ gitRaisedAt' = "prepare"
         ELSE gitPc' = "loop" /\ UNCHANGED gitRaisedAt
    /\ UNCHANGED <<gitArgs, gitI, gitRuns, gitSleeps, gitOk>>
    /\ UNCHANGED nonGitVars

\* line 128: if attempt_num == max_retries
LastAttempt(attempt_num, retries) == attempt_num = retries

\* lines 113-134: one pass of the loop for i in range(max_retries)
GitAttempt ==
    /\ gitPc = "loop"
    /\ gitI < Val(gitArgs.max_retries)
    /\ gitRuns' = gitRuns + 1
    /\ LET attempt_num == gitI + 1 IN
       \E outcome \in {"zero", "nonzero", "CommandError"} :
         IF outcome = "zero"
         THEN /\ gitOk' = TRUE
              /\ gitPc' = "returned"
              /\ UNCHANGED <<gitI, gitSleeps, gitRaisedAt>>
         ELSE IF LastAttempt(attempt_num, Val(gitArgs.max_retries))
         THEN /\ gitPc' = "raised"
              /\ gitRaisedAt' = "loop"
              /\ UNCHANGED <<gitI, gitSleeps, gitOk>>
         ELSE /\ gitSleeps' = gitSleeps + 1
              /\ gitI' = gitI + 1
              /\ UNCHANGED <<gitPc, gitOk, gitRaisedAt>>
    /\ UNCHANGED gitArgs
    /\ UNCHANGED nonGitVars

\* lines 113, 134: range(max_retries) is exhausted and the function ends,
\* returning None
GitLoopEnd ==
    /\ gitPc = "loop"
    /\ gitI >= Val(gitArgs.max_retries)
    /\ gitPc' = "returned"
    /\ UNCHANGED <<gitArgs, gitI, gitRuns, gitSleeps, gitOk, gitRaisedAt>>
    /\ UNCHANGED nonGitVars

GitNext ==
    \/ GitValidate
    \/ GitFind
    \/ GitPrepare
    \/ GitAttempt
    \/ GitLoopEnd

InitGit ==
    GitInit /\ FacadeIdle /\ GroupIdle /\ DynIdle /\ RunIdle /\ DepIdle
            /\ RetryIdle /\ LateIdle

SpecGit == InitGit /\ [][GitNext]_vars

\* C24: git_clone returns only after an attempt that got exit code 0; a
\* git_clone that came to its loop and got none raises PyGitError after
\* exactly max_retries attempts; it sleeps only between two attempts.
C24_GitCloneAttempts ==
    /\ gitPc = "returned" => gitOk
    /\ gitRaisedAt = "loop" =>
          /\ gitRuns = Val(gitArgs.max_retries)
          /\ gitSleeps = gitRuns - 1
    /\ gitPc \in {"returned", "raised"} /\ gitRuns > 0 =>
          gitSleeps = gitRuns - 1


(***************************************************************************)
(* nexus.get_artifact, from the query of an attempt to the end of the      *)
(* download (nexus.py:211-302).  The arguments have passed the validation  *)
(* and the destination directory exists; the disk takes every write.      *)
(***************************************************************************)

\* the most chunks a response yields, and the longest chunk (chunk_size,
\* scaled down)
MaxChunks == 2
MaxChunkLen == 2

\* nexus.py:214
artifact_max_retries == 6

RECURSIVE Total(_)
Total(lens) == IF lens = <<>> THEN 0 ELSE Head(lens) + Total(Tail(lens))

\* the chunks of a sequence that are not empty ("if chunk:")
RECURSIVE NonEmpty(_)
NonEmpty(lens) ==
    IF lens = <<>> THEN <<>>
    ELSE IF Head(lens) > 0 THEN <<Head(lens)>> \o NonEmpty(Tail(lens))
         ELSE NonEmpty(Tail(lens))

Bodies == UNION {[1..n -> 0..MaxChunkLen] : n \in 0..MaxChunks}

DlInit ==
    /\ dlBody \in Bodies
    /\ dlHeader \in {NoValue, Some(Total(dlBody))}
    /\ suppress_status \in BOOLEAN
    /\ overwrite \in BOOLEAN
    /\ dlFile \in {NoValue, Some(<<>>)}
    /\ try_num = 1
    /\ file_size = 0
    /\ file_size_dl = 0
    /\ dlPos = 0
    /\ dlPrinted = 0
    /\ failed_attempt = FALSE
    /\ dlPc = "query"
    /\ dlErr = "none"

\* lines 237-245: int(nexus_response.headers['Content-Length'])
ContentLength(header) == IF header = NoValue THEN 0 ELSE Val(header)

\* lines 221-268: the top of one pass of the retry loop, up to the open of
\* the download file
DlQuery ==
    /\ dlPc = "query"
    /\ try_num <= artifact_max_retries
    /\ \E answered \in BOOLEAN :
         IF ~answered
         THEN /\ dlPc' = "raised"
              /\ dlErr' = "RuntimeError"
              /\ UNCHANGED <<suppress_status, file_size, file_size_dl, dlPos,
                             dlFile>>
         ELSE /\ file_size' = ContentLength(dlHeader)
              /\ suppress_status' = (suppress_status \/ dlHeader = NoValue)
              /\ IF dlFile # NoValue /\ ~overwrite /\ ~failed_attempt
                 THEN /\ dlPc' = "returned"
                      /\ dlErr' = "none"
                      /\ UNCHANGED <<file_size_dl, dlPos, dlFile>>
                 ELSE /\ dlFile' = Some(<<>>)
                      /\ file_size_dl' = 0
                      /\ dlPos' = 0
                      /\ dlPc' = "chunk"
                      /\ dlErr' = "none"
    /\ UNCHANGED <<dlHeader, dlBody, try_num, dlPrinted, overwrite,
                   failed_attempt, nonDlVars>>

\* lines 286-293 and 221, 296-302: a failed attempt ends the pass; the loop
\* goes on while try_num <= max_retries
DlFailed ==
    /\ failed_attempt' = TRUE
    /\ try_num' = try_num + 1
    /\ IF try_num + 1 <= artifact_max_retries
       THEN dlPc' = "query" /\ dlErr' = "none"
       ELSE dlPc' = "raised" /\ dlErr' = "RuntimeError"

\* lines 272-279: one chunk of the response; the stream can break instead
DlChunk ==
    /\ dlPc = "chunk"
    /\ dlPos < Len(dlBody)
    /\ \E broken \in BOOLEAN :
         IF broken
         THEN /\ DlFailed
              /\ UNCHANGED <<file_size_dl, dlPos, dlFile, dlPrinted>>
         ELSE LET chunk == dlBody[dlPos + 1] IN
              IF chunk = 0
              THEN /\ dlPos' = dlPos + 1
                   /\ UNCHANGED <<file_size_dl, dlFile, dlPrinted, dlPc,
                                  dlErr, try_num, failed_attempt>>
              ELSE /\ dlFile' = Some(Append(Val(dlFile), chunk))
                   /\ file_size_dl' = file_size_dl + chunk
                   /\ dlPos' = dlPos + 1
                   /\ IF file_size = 0
                      THEN \* file_size_dl * 100. / file_size
                           /\ dlPc' = "raised"
                           /\ dlErr' = "ZeroDivisionError"
                           /\ UNCHANGED dlPrinted
                      ELSE /\ dlPrinted' = IF suppress_status THEN dlPrinted
                                           ELSE dlPrinted + 1
                           /\ UNCHANGED <<dlPc, dlErr>>
                   /\ UNCHANGED <<try_num, failed_attempt>>
    /\ UNCHANGED <<dlHeader, dlBody, suppress_status, file_size, overwrite,
                   nonDlVars>>

\* lines 289-293, 221-225: the response is exhausted
DlDone ==
    /\ dlPc = "chunk"
    /\ dlPos = Len(dlBody)
    /\ failed_attempt' = FALSE
    /\ try_num' = try_num + 1
    /\ dlPc' = "returned"
    /\ dlErr' = "none"
    /\ UNCHANGED <<dlHeader, dlBody, suppress_status, file_size, file_size_dl,
                   dlPos, dlFile, dlPrinted, overwrite, nonDlVars>>

DlNext == DlQuery \/ DlChunk \/ DlDone

EarlyIdle ==
    /\ RunIdle /\ DepIdle /\ RetryIdle
    /\ FacadeIdle /\ GroupIdle /\ DynIdle /\ GitIdle

InitDl == DlInit /\ EarlyIdle /\ IngIdle /\ SlackIdle /\ HostsIdle

SpecDl == InitDl /\ [][DlNext]_vars

\* C25: without a usable Content-Length the download prints no status, every
\* chunk received is in the file, and nothing but the failure of the query
\* or of the stream leaves get_artifact as an exception.
C25_NoLengthStillDownloads ==
    dlHeader = NoValue =>
        /\ dlPc \in {"chunk", "returned", "raised"} => dlPrinted = 0
        /\ dlPc = "chunk" => Val(dlFile) = NonEmpty(SubSeq(dlBody, 1, dlPos))
        /\ dlPc = "raised" => dlErr = "RuntimeError"


(***************************************************************************)
(* EC2Util.configure_security_group_ingress (ec2util.py:669-776).  An      *)
(* ingress rule is [proto, ports, cidr]; a rule for all protocols ("-1")   *)
(* carries no FromPort and no ToPort.                                      *)
(***************************************************************************)

\* the highest port number, and the most rules the group starts with
MaxPort == 2
MaxRules == 2

CidrBlocks == {"10.0.0.1/32", "10.0.0.2/32"}

PortRanges == {<<lo, hi>> : lo \in 1..MaxPort, hi \in 1..MaxPort}
                 \ {<<lo, hi>> \in (1..MaxPort) \X (1..MaxPort) : lo > hi}

IngressRules ==
    [proto : {"tcp"}, ports : {Some(r) : r \in PortRanges},
     cidrs : {{c} : c \in CidrBlocks}]
    \cup [proto : {"-1"}, ports : {NoValue}, cidrs : {{c} : c \in CidrBlocks}]

\* the port argument: no string, a string that is no number, or the string
\* of a number
PortArgs == {<<"int">>, <<"word">>} \cup {<<"num", p>> : p \in 1..MaxPort}

IngCalls ==
    [group_is_str : BOOLEAN,
     port : PortArgs,
     cidrs : {NoValue, Some({"10.0.0.1/32"}), Some(CidrBlocks)}]

IngInit ==
    /\ ingRules \in {rs \in SUBSET IngressRules : Cardinality(rs) <= MaxRules}
    /\ ingArgs \in IngCalls
    /\ ingTodo = {}
    /\ ingRevoked = {}
    /\ ingAuth = NoValue
    /\ ingPc = "validate"
    /\ ingErr = "none"

IngRaise(cls) ==
    /\ ingPc' = "raised"
    /\ ingErr' = cls

\* lines 683-695
IngValidate ==
    /\ ingPc = "validate"
    /\ IF ~ingArgs.group_is_str \/ ingArgs.port = <<"int">>
          \/ ingArgs.cidrs = NoValue
       THEN IngRaise("EC2UtilError")
       ELSE ingPc' = "describe" /\ ingErr' = "none"
    /\ UNCHANGED <<ingRules, ingArgs, ingTodo, ingRevoked, ingAuth,
                   nonIngVars>>

\* lines 699-718: describe_security_groups and its 'IpPermissions'
IngDescribe ==
    /\ ingPc = "describe"
    /\ \E answered \in BOOLEAN :
         IF answered
         THEN /\ ingTodo' = ingRules
              /\ ingPc' = "rules"
              /\ ingErr' = "none"
         ELSE /\ IngRaise("AWSAPIError")
              /\ UNCHANGED ingTodo
    /\ UNCHANGED <<ingRules, ingArgs, ingRevoked, ingAuth, nonIngVars>>

\* line 724: ingress_rule['ToPort'] != int(port), the rule is skipped
Skipped(rule, port) == Val(rule.ports)[2] # port

\* lines 722-739: one rule of the queried list
IngRule ==
    /\ ingPc = "rules"
    /\ \E rule \in ingTodo :
         /\ ingTodo' = ingTodo \ {rule}
         /\ IF rule.ports = NoValue
            THEN /\ IngRaise("KeyError")
                 /\ UNCHANGED <<ingRules, ingRevoked>>
            ELSE IF ingArgs.port = <<"word">>
            THEN /\ IngRaise("ValueError")
                 /\ UNCHANGED <<ingRules, ingRevoked>>
            ELSE IF Skipped(rule, ingArgs.port[2])
            THEN UNCHANGED <<ingRules, ingRevoked, ingPc, ingErr>>
            ELSE \E revoked \in BOOLEAN :
                   IF revoked
                   THEN /\ ingRules' = ingRules \ {rule}
                        /\ ingRevoked' = ingRevoked \cup {rule}
                        /\ UNCHANGED <<ingPc, ingErr>>
                   ELSE /\ IngRaise("AWSAPIError")
                        /\ UNCHANGED <<ingRules, ingRevoked>>
    /\ UNCHANGED <<ingArgs, ingAuth, nonIngVars>>

\* lines 741-758: the rule built from the port and the CIDR blocks
desired_ip_permissions(port, cidrs) ==
    [proto |-> "tcp", ports |-> Some(<<port, port>>), cidrs |-> cidrs]

\* lines 741-773: the list is exhausted; build and authorize the rule
IngAuthorize ==
    /\ ingPc = "rules"
    /\ ingTodo = {}
    /\ IF ingArgs.port = <<"word">>
       THEN /\ IngRaise("ValueError")
            /\ UNCHANGED <<ingRules, ingAuth>>
       ELSE \E authorized \in BOOLEAN :
              LET rule == desired_ip_permissions(ingArgs.port[2],
                                                 Val(ingArgs.cidrs)) IN
              IF authorized
              THEN /\ ingRules' = ingRules \cup {rule}
                   /\ ingAuth' = Some(rule)
                   /\ ingPc' = "returned"
                   /\ ingErr' = "none"
              ELSE /\ IngRaise("AWSAPIError")
                   /\ UNCHANGED <<ingRules, ingAuth>>
    /\ UNCHANGED <<ingArgs, ingTodo, ingRevoked, nonIngVars>>

IngNext == IngValidate \/ IngDescribe \/ IngRule \/ IngAuthorize

InitIng == IngInit /\ EarlyIdle /\ DlIdle /\ SlackIdle /\ HostsIdle

SpecIng == InitIng /\ [][IngNext]_vars

\* the rule lets TCP traffic to the port in
Admits(rule, port) ==
    \/ rule.ports = NoValue
    \/ /\ rule.proto = "tcp"
       /\ port \in Val(rule.ports)[1]..Val(rule.ports)[2]

\* C26: when configure_security_group_ingress has returned, the rule it
\* authorized for exactly the given CIDR blocks is the only rule of the group
\* that admits TCP on the port.
C26_OnlyDesiredRuleAdmitsPort ==
    ingPc = "returned" =>
        /\ ingAuth = Some(desired_ip_permissions(ingArgs.port[2],
                                                 Val(ingArgs.cidrs)))
        /\ {r \in ingRules : Admits(r, ingArgs.port[2])} = {Val(ingAuth)}


(***************************************************************************)
(* One SlackMessage under a sequence of add_attachment and send calls      *)
(* (slack.py:48-165).  Attachments are numbered in the order they were     *)
(* added.  payload['attachments'] is the list object self.attachments      *)
(* whenever the entry exists, so an append to the list shows in both.      *)
(***************************************************************************)

\* the most attachments added to the message, and the most sends
MaxAttachments == 3
MaxSends == 3

\* lines 48-73: the message just constructed
SlackInit ==
    /\ attachments = <<>>
    /\ payload = [text |-> "text", attachments |-> NoValue]
    /\ slackEnc = <<>>
    /\ slackAdded = <<>>
    /\ slackSent = <<>>
    /\ slackPc = "new"

\* lines 106-121: isSlackAttachment says the argument is a SlackAttachment,
\* encodable that its values encode as JSON
add_attachment ==
    /\ slackPc # "idle"
    /\ Len(slackEnc) < MaxAttachments
    /\ \E isSlackAttachment \in BOOLEAN, encodable \in BOOLEAN :
         IF ~isSlackAttachment
         THEN /\ slackPc' = "rejected"
              /\ UNCHANGED <<attachments, payload, slackEnc, slackAdded>>
         ELSE LET n == Len(slackEnc) + 1 IN
              /\ attachments' = Append(attachments, n)
              /\ payload' =
                    IF payload.attachments = NoValue THEN payload
                    ELSE [payload EXCEPT !.attachments = Some(attachments')]
              /\ slackEnc' = Append(slackEnc, encodable)
              /\ slackAdded' = Append(slackAdded, Len(slackSent))
              /\ slackPc' = "added"
    /\ UNCHANGED <<slackSent, nonSlackVars>>

\* lines 163-165 with the list kept
sendOnMutant(atts, pl, post) ==
    LET entry == IF atts # <<>> THEN Some(atts) ELSE pl.attachments
        pl1 == [pl EXCEPT !.attachments = entry]
        carried == IF entry = NoValue THEN <<>> ELSE Val(entry)
    IN  IF \E i \in 1..Len(carried) : ~slackEnc[carried[i]]
        THEN [attachments |-> atts, payload |-> pl1, posted |-> FALSE,
              carried |-> <<>>, outcome |-> "raised"]
        ELSE IF post = "ConnectionError"
        THEN [attachments |-> atts, payload |-> pl1, posted |-> TRUE,
              carried |-> carried, outcome |-> "raised"]
        ELSE [attachments |-> atts, payload |-> pl1,
              posted |-> TRUE, carried |-> carried, outcome |-> "returned"]

\* lines 123-165: send() on the attachments list atts and the payload pl;
\* post says how requests.post ends: "ok" (status 200), "ConnectionError" or
\* "status" (any other status code)
sendOn(atts, pl, post) ==
    LET entry == IF atts # <<>> THEN Some(atts) ELSE pl.attachments
        pl1 == [pl EXCEPT !.attachments = entry]
        carried == IF entry = NoValue THEN <<>> ELSE Val(entry)
    IN  IF \E i \in 1..Len(carried) : ~slackEnc[carried[i]]
        THEN \* the encoder raises, json_payload is never bound
             [attachments |-> atts, payload |-> pl1, posted |-> FALSE,
              carried |-> <<>>, outcome |-> "raised"]
        ELSE IF post = "ConnectionError"
        THEN [attachments |-> atts, payload |-> pl1, posted |-> TRUE,
              carried |-> carried, outcome |-> "raised"]
        ELSE [attachments |-> <<>>,
              payload |-> [pl1 EXCEPT !.attachments = NoValue],
              posted |-> TRUE, carried |-> carried, outcome |-> "returned"]

Send ==
    /\ slackPc # "idle"
    /\ Len(slackSent) < MaxSends
    /\ \E post \in {"ok", "ConnectionError", "status"} :
         LET r == sendOn(attachments, payload, post) IN
         /\ attachments' = r.attachments
         /\ payload' = r.payload
         /\ slackSent' = Append(slackSent, [carried |-> r.carried,
                                            posted |-> r.posted,
                                            outcome |-> r.outcome])
         /\ slackPc' = r.outcome
    /\ UNCHANGED <<slackEnc, slackAdded, nonSlackVars>>

SlackNext == add_attachment \/ Send

InitSlack == SlackInit /\ EarlyIdle /\ DlIdle /\ IngIdle /\ HostsIdle

SpecSlack == InitSlack /\ [][SlackNext]_vars

\* the send with number k posted a payload that carries attachment a
Carries(k, a) ==
    \E i \in 1..Len(slackSent[k].carried) : slackSent[k].carried[i] = a

\* the sends after attachment a was added that returned normally
NormalSendsAfter(a) ==
    {k \in (slackAdded[a] + 1)..Len(slackSent) :
        slackSent[k].outcome = "returned"}

\* C27: an attachment is in the payload of the first send that returns
\* normally after it was added and in the payload of no later send; when
\* send has returned, the attachments list is empty and the payload has no
\* 'attachments' entry.
C27_AttachmentsSentOnce ==
    /\ \A a \in 1..Len(slackAdded) :
         NormalSendsAfter(a) # {} =>
            LET first == CHOOSE k \in NormalSendsAfter(a) :
                            \A j \in NormalSendsAfter(a) : k <= j
            IN  /\ Carries(first, a)
                /\ \A k \in (first + 1)..Len(slackSent) : ~Carries(k, a)
    /\ slackPc = "returned" =>
         /\ attachments = <<>>
         /\ payload.attachments = NoValue

\* an attachment was added, a send raised, the next send returned with the
\* attachment in its payload, and a later send went without it
C27_Witness ==
    /\ Len(slackSent) = 3
    /\ slackAdded = <<0>>
    /\ slackSent[1].outcome = "raised" /\ slackSent[1].posted
    /\ slackSent[2].outcome = "returned" /\ Carries(2, 1)
    /\ slackSent[3].outcome = "returned" /\ ~Carries(3, 1)
    /\ slackPc = "returned"
    /\ attachments = <<>>


(***************************************************************************)
(* update_hosts_file (bash.py:645-699; windows.py:31-86 is the same code   *)
(* on another path and with another exception class).  The hosts file is a *)
(* text; nothing else writes it between two calls.                         *)
(***************************************************************************)

\* the longest hosts file, in characters, and the most calls in a row
MaxHostsLen == 5
MaxHostsCalls == 2

HostsChars == {"1", "h", " ", "\n"}

HostsTexts == UNION {[1..n -> HostsChars] : n \in 0..MaxHostsLen}

HostsCallArgs ==
    [ip : {NoValue, Some(<<"1">>), Some(<<"1", "1">>)},
     entry : {NoValue, Some(<<"h">>), Some(<<" ", "h">>)}]

HostsInit ==
    /\ hostsFile \in {NoValue} \cup {Some(t) : t \in HostsTexts}
    /\ hostsArgs \in HostsCallArgs
    /\ hostsOrig = hostsFile
    /\ hostsFirst = NoValue
    /\ hostsCalls = 0
    /\ hostsPc = "ready"
    /\ hostsErr = "none"

\* line.split()[0]: the first run of characters that are no whitespace
FirstWord(line) ==
    LET s == LStrip(line)
        ends == {i \in 1..Len(s) : IsSpace(s[i])}
    IN  IF ends = {} THEN s
        ELSE SubSeq(s, 1, (CHOOSE i \in ends : \A j \in ends : i <= j) - 1)

\* line 676: full_entry
full_entry(ip, entry) == ip \o <<" ">> \o Strip(entry) \o <<"\n">>

\* lines 679-680: the line is one of the ip
IsIpLine(ip, line) == re_search(ip, line) /\ FirstWord(line) = ip

\* lines 678-692: what the loop over the file writes for one line
Rewritten(ip, entry, line) ==
    IF IsIpLine(ip, line) THEN full_entry(ip, entry) ELSE line

\* lines 676-699: the text update_hosts_file leaves for the text it found
UpdatedText(text, ip, entry) ==
    LET lines == FileLines(text)
        out == [i \in 1..Len(lines) |-> Rewritten(ip, entry, lines[i])]
        updated == \E i \in 1..Len(lines) : IsIpLine(ip, lines[i])
    IN  IF updated THEN Concat(out)
        ELSE Concat(out) \o full_entry(ip, entry)

\* lines 645-699: one call
update_hosts_file ==
    /\ hostsPc \in {"ready", "returned"}
    /\ hostsCalls < MaxHostsCalls
    /\ IF hostsArgs.ip = NoValue \/ hostsArgs.entry = NoValue
          \/ hostsFile = NoValue
       THEN /\ hostsPc' = "raised"
            /\ hostsErr' = "CommandError"
            /\ UNCHANGED <<hostsFile, hostsFirst>>
       ELSE /\ hostsFile' = Some(UpdatedText(Val(hostsFile),
                                             Val(hostsArgs.ip),
                                             Val(hostsArgs.entry)))
            /\ hostsFirst' = IF hostsCalls = 0 THEN hostsFile' ELSE hostsFirst
            /\ hostsPc' = "returned"
            /\ hostsErr' = "none"
    /\ hostsCalls' = hostsCalls + 1
    /\ UNCHANGED <<hostsArgs, hostsOrig, nonHostsVars>>

HostsNext == update_hosts_file

InitHosts == HostsInit /\ EarlyIdle /\ DlIdle /\ IngIdle /\ SlackIdle

SpecHosts == InitHosts /\ [][HostsNext]_vars

\* the file has the line 'ip entry'
HasEntryLine ==
    LET lines == FileLines(Val(hostsFile)) IN
    \E i \in 1..Len(lines) :
        lines[i] = full_entry(Val(hostsArgs.ip), Val(hostsArgs.entry))

\* the lines of the original file that begin with another address are in the
\* file, unchanged and where they were
OtherLinesKept ==
    LET was == FileLines(Val(hostsOrig))
        now == FileLines(Val(hostsFile))
    IN  \A i \in 1..Len(was) :
           FirstWord(was[i]) # Val(hostsArgs.ip) =>
              i <= Len(now) /\ now[i] = was[i]

\* C28: after a call of update_hosts_file the file has the line 'ip entry'
\* and the lines of other addresses are unchanged and in place; a second call
\* with the same arguments leaves the file as the first call left it.
C28_UpdateHostsIdempotent ==
    hostsPc = "returned" =>
        /\ HasEntryLine
        /\ OtherLinesKept
        /\ hostsCalls >= 2 => hostsFile = hostsFirst


(***************************************************************************)
(* One Deployment whose properties file is rewritten between calls of      *)
(* read_deployment_properties (deployment.py:164-215), with the lookups    *)
(* of lines 217-295 in between.                                            *)
(***************************************************************************)
ReloadKeys == {<<"a">>, <<".">>}

ReloadLines == {k \o <<"=">> \o v \o <<"\n">> : k \in ReloadKeys, v \in Values}

\* the files of up to MaxProps lines name=value over these names
ReloadFiles ==
    {Concat(ls) : ls \in UNION {[1..n -> ReloadLines] : n \in 0..MaxProps}}

\* line 69: the Deployment being constructed, and the string its caller
\* will look up
ReloadInit ==
    /\ file \in ReloadFiles
    /\ properties = <<>>
    /\ depPc = "new"
    /\ lookupArg \in {<<"a">>, <<".">>}
    /\ query = [op |-> "none", ret |-> NoValue]
    /\ CtorAtRead

\* somebody rewrites the properties file
FileRewritten ==
    /\ depPc \in {"loaded", "reread"}
    /\ file' \in ReloadFiles \ {file}
    /\ depPc' = "changed"
    /\ UNCHANGED <<properties, lookupArg, query>>
    /\ UNCHANGED nonDepVars

\* lines 164-215: read_deployment_properties called on the loaded object;
\* the method does not assign self.properties (line 69 is in __init__
\* only), so its loop starts from the map as it is
ReadAgain ==
    /\ depPc \in {"loaded", "reread", "changed"}
    /\ properties' = ReadLines(properties, FileLines(file))
    /\ depPc' = "reread"
    /\ UNCHANGED <<file, lookupArg, query>>
    /\ UNCHANGED nonDepVars

\* lines 217-295: get_property, get_matching_property_names or get_value
\* called on the loaded object
LookUp ==
    /\ depPc \in {"loaded", "reread", "changed"}
    /\ \/ query' = [op |-> "get_property",
                    ret |-> get_property(properties, lookupArg)]
       \/ query' = [op |-> "get_matching_property_names",
                    ret |-> Some(SetToSeq(prop_list_matched(properties,
                                                            lookupArg)))]
       \/ query' = [op |-> "get_value",
                    ret |-> get_value(properties, lookupArg)]
    /\ UNCHANGED <<file, properties, depPc, lookupArg>>
    /\ UNCHANGED nonDepVars

ReloadNext ==
    \/ read_deployment_properties
    \/ FileRewritten
    \/ ReadAgain
    \/ LookUp

InitReload == ReloadInit /\ RunIdle /\ RetryIdle /\ RestIdle

SpecReload == InitReload /\ [][ReloadNext]_vars

\* C29: after a call of read_deployment_properties the map is the parse of
\* the file as that call found it, whatever the calls before it had loaded,
\* and a lookup changes nothing in the map.
C29_MapIsParseOfLastRead ==
    /\ [](depPc \in {"loaded", "reread"} =>
            properties = ReadLines(<<>>, FileLines(file)))
    /\ [][(file' = file /\ depPc' = depPc) => properties' = properties]_vars


====
